---- MODULE Spec2Model ----
(***************************************************************************)
(* Verification model of the LBank exchange client of portfolio-doctor:    *)
(* RateLimiter, the signed transport with host failover, the price cache   *)
(* and the portfolio aggregation (src/app/services/lbank_service.py and    *)
(* src/app/services/portfolio_service.py).                                 *)
(*                                                                         *)
(* Time is counted in ticks of the limiter's epsilon (0.1 s in the code).  *)
(***************************************************************************)
EXTENDS Integers, Sequences, FiniteSets, TLC

VARIABLES
    clock,      \* time.time(), in ticks
    requests,   \* RateLimiter.requests: the deque of admission timestamps
    admitted,   \* history: the timestamps appended to the deque that are
                \* not older than one window
    rpc,        \* per caller: position inside wait_if_needed
    rwake,      \* per caller: earliest time asyncio.sleep may return
    rslept,     \* history: some admission was made after the sleep
    rcalls,     \* history: number of wait_if_needed calls started
    \* _get_user_assets_supplement / _get_trade_balances over rest_hosts
    hop,        \* which of the two fetches runs
    hconn,      \* self._connector_available
    hpc,        \* position of the fetch
    hcont,      \* where the fetch continues after the limiter admitted it
    hidx,       \* index into rest_hosts of the host being tried
    hatt,       \* attempt of _post_signed's retry loop (0-based)
    herrors,    \* errors: the list of failure reasons
    hres,       \* what the fetch returned or raised
    hposts,     \* history: POSTs sent to each host
    hgets,      \* history: timestamp GETs sent to each host
    hfirst,     \* history: each host's answer to the first POST
    hallT,      \* history: every POST to the host failed in transport
    hlast,      \* history: each host's answer to the latest POST
    hcreq,      \* history: requests made on the connector path
    hwait,      \* seconds _post_signed slept before the attempt it is about to
                \* make (0 before the first attempt)
    \* _post_contract_signed over contract_hosts
    cpath,      \* the contract endpoint requested
    cpc,        \* position of the call
    cidx,       \* index into contract_hosts of the host being tried
    catt,       \* attempt of the retry loop (0-based)
    clast,      \* last_error
    cres,       \* what the call returned or raised
    cfails,     \* history: every failed attempt, as [src, reason]
    \* _get_all_prices_optimized and the price cache
    price_cache,            \* self._price_cache
    price_cache_timestamp,  \* self._price_cache_timestamp
    ppc,        \* per caller: position inside _get_all_prices_optimized
    pnow,       \* per caller: the local now, taken when the call started
    pidx,       \* per caller: index into rest_hosts of the host being tried
    pret,       \* per caller: the mapping the call returned
    pkind,      \* per caller, history: which return statement was taken
    pfailed,    \* per caller, history: hosts that failed in this call
    preqs,      \* per caller, history: HTTP requests sent by this call
    pcalls,     \* history: number of calls started
    \* PortfolioService.get_portfolio, the live part
    wallet_rows,    \* the balance records of the spot account
    price_map,      \* what _get_all_prices_optimized returns during the fetch
    gpc,            \* position inside get_portfolio
    live_data,      \* result of get_portfolio_data
    futures_detail, \* result of get_futures_balances
    live_portfolio, \* None, or the live portfolio returned to the caller
    gspot,          \* history: how the spot fetch ended
    gtrade,         \* history: trade_info of get_portfolio_data, None at first
    gfut,           \* history: how each futures fetch ended
    gcaught,        \* history: the except clause that ran, if any
    persisted_total,    \* portfolio.totalValueUSD, the total saved in the database
    summary_total,  \* summary.totalValueUSD of the answer
    greturned,      \* how get_portfolio ended
    gwaited,        \* history: time spent in the wait_for calls
    \* _get_price_from_map and the valuation of one futures balance
    qsym,       \* the symbol
    qmap,       \* the price map
    qpc,        \* "input" before the call, "done" after it
    qres,       \* what _get_price_from_map returned
    qfut,       \* the asset _parse_contract_balances makes of one unit of qsym
    \* _sign_params_hmac
    sparams,    \* a parameter mapping, as the list of its items in insertion order
    sother,     \* another parameter mapping
    ssecret,    \* the secret key
    spc,        \* "input" before the calls, "done" after them
    ssig,       \* the signature of sparams
    ssig_other, \* the signature of sother
    ssig_again, \* the signature of sparams, computed once more
    \* the echostr of the signed requests
    nonces,     \* history: number of _generate_echo_str calls so far
    hecho,      \* params["echostr"] of the running _post_signed call
    cecho,      \* params["echostr"] of the running _post_contract_signed call
    sent,       \* history: the echostr of every signed request sent
    \* _extract_assets_from_response
    xpayload,    \* the wallet response
    xpc,         \* "input" before the call, "done" after it
    xres,        \* the list it returned, or the exception it raised
    \* sync_portfolio
    persisted_assets, \* the PortfolioAsset rows saved in the database
    ypc,         \* "idle" before the call, then "synced" or "raised"
    yfetch       \* history: how the fetch from the exchange ended

limiterVars == <<clock, requests, admitted, rpc, rwake, rslept, rcalls>>
hostVars == <<hop, hconn, hpc, hcont, hidx, hatt, herrors, hres,
              hposts, hgets, hfirst, hallT, hlast, hcreq, hwait>>

contractVars == <<cpath, cpc, cidx, catt, clast, cres, cfails>>

priceVars == <<price_cache, price_cache_timestamp, ppc, pnow, pidx,
               pret, pkind, pfailed, preqs, pcalls>>

portfolioVars == <<wallet_rows, price_map, gpc, live_data, futures_detail,
                   live_portfolio, gspot, gtrade, gfut, gcaught,
                   persisted_total, summary_total, greturned, gwaited>>

resolveVars == <<qsym, qmap, qpc, qres, qfut>>

signVars == <<sparams, sother, ssecret, spc, ssig, ssig_other, ssig_again>>

echoVars == <<nonces, hecho, cecho, sent>>

extractVars == <<xpayload, xpc, xres>>

syncVars == <<persisted_assets, ypc, yfetch>>

vars == <<limiterVars, hostVars, contractVars, priceVars, portfolioVars,
          resolveVars, signVars, echoVars, extractVars, syncVars>>

\* what the actions of one part leave alone
pureVars == <<resolveVars, signVars, extractVars, syncVars>>
limiterFrame == <<hostVars, contractVars, priceVars, portfolioVars, pureVars,
                  echoVars>>
hostFrame == <<contractVars, priceVars, portfolioVars, pureVars>>
contractFrame == <<hostVars, priceVars, portfolioVars, pureVars>>
priceFrame == <<hostVars, contractVars, portfolioVars, pureVars, echoVars>>
portfolioFrame == <<limiterVars, hostVars, contractVars, priceVars, pureVars,
                    echoVars>>
resolveFrame == <<limiterVars, hostVars, contractVars, priceVars, portfolioVars,
                  signVars, echoVars, extractVars, syncVars>>
signFrame == <<limiterVars, hostVars, contractVars, priceVars, portfolioVars,
               resolveVars, echoVars, extractVars, syncVars>>
extractFrame == <<limiterVars, hostVars, contractVars, priceVars, portfolioVars,
                  resolveVars, signVars, echoVars, syncVars>>
syncFrame == <<limiterVars, hostVars, contractVars, priceVars, resolveVars,
               signVars, echoVars, extractVars>>

(***************************************************************************)
(* Bounds of the model                                                     *)
(***************************************************************************)
MaxRequests == 2    \* RateLimiter(max_requests=...)
WindowTicks == 3    \* RateLimiter(window_seconds=...), in ticks
MaxClock == 10      \* the clock stops here
NumCallers == 2     \* coroutines sharing one limiter
MaxCalls == 5       \* wait_if_needed calls started in one behaviour
MaxPriceCalls == 2  \* _get_all_prices_optimized calls started in one behaviour
MaxRows == 2        \* balance records in one spot payload
MaxPrice == 2       \* largest price in a price map handed to _get_price_from_map
MaxParams == 2      \* entries of a parameter mapping handed to _sign_params_hmac

Epsilon == 1        \* the "+ 0.1" of sleep_time: one tick
LiveFetchTimeout == 2   \* the timeout=30.0 of each wait_for, in units of 15 s

Callers == 1..NumCallers

(***************************************************************************)
(* RateLimiter                                                             *)
(***************************************************************************)
\* while self.requests and self.requests[0] < now - self.window_seconds: popleft()
RECURSIVE Purge(_, _)
Purge(q, now) ==
    IF q # <<>> /\ Head(q) < now - WindowTicks
    THEN Purge(Tail(q), now)
    ELSE q

\* len(self.requests) >= self.max_requests
AtLimit(q) == Len(q) >= MaxRequests

SleepTimeShort(now, oldest) == WindowTicks - (now - oldest) - Epsilon

\* sleep_time = self.window_seconds - (now - self.requests[0]) + 0.1
SleepTime(now, oldest) == WindowTicks - (now - oldest) + Epsilon

AdmitAfterSleepUnrecorded(q, now) == Purge(q, now)

\* the code after the sleep: re-purge, then append unconditionally
AdmitAfterSleep(q, now) == Append(Purge(q, now), now)

\* wait_if_needed up to its first suspension point (or to its end when it
\* does not sleep)
wait_if_needed(p) ==
    /\ rpc[p] = "idle"
    /\ rcalls' = rcalls + 1
    /\ LET now == clock
           q == Purge(requests, now)
       IN  IF AtLimit(q) /\ SleepTime(now, q[1]) > 0
           THEN /\ requests' = q
                /\ rpc' = [rpc EXCEPT ![p] = "sleeping"]
                /\ rwake' = [rwake EXCEPT ![p] = now + SleepTime(now, q[1])]
                /\ UNCHANGED <<admitted, rslept>>
           ELSE /\ requests' = Append(q, clock)
                /\ admitted' = Append(admitted, clock)
                /\ UNCHANGED <<rpc, rwake, rslept>>
    /\ UNCHANGED clock

\* wait_if_needed from the return of asyncio.sleep to its end
wait_if_needed_resume(p) ==
    /\ rpc[p] = "sleeping"
    /\ clock >= rwake[p]
    /\ requests' = AdmitAfterSleep(requests, clock)
    /\ admitted' = Append(admitted, clock)
    /\ rslept' = TRUE
    /\ rpc' = [rpc EXCEPT ![p] = "idle"]
    /\ UNCHANGED <<clock, rwake, rcalls>>

(***************************************************************************)
(* Signed spot / trade balance fetch with host failover                    *)
(***************************************************************************)
\* self.rest_hosts, by position in the list; source 0 is the connector
RestHosts == <<"www.lbkex.net", "api.lbkex.com", "api.lbank.info">>
HostIds == 1..Len(RestHosts)

\* max_retries of _post_signed
MaxRetries == 3

\* what one HTTP POST of _post_signed can end in:
\*   timeout    httpx.TimeoutException
\*   exception  any other transport exception
\*   list       a JSON array body (the documented shape of user_info.do)
\*   ok         a JSON object with result true
\*   biz        a JSON object with result false and an error_code other than 10004
\*   rate       a JSON object with result false and error_code 10004
\*   odd        a JSON object with neither result nor error_code
Responses == {"timeout", "exception", "list", "ok", "biz", "rate", "odd"}
TransportFailures == {"timeout", "exception"}

\* One attempt of the retry loop of _post_signed: what the loop does with the
\* answer r on attempt att. A list body makes data.get('error_code') raise
\* AttributeError inside the try block, which the generic handler treats as
\* any other failure.
PostSignedStepOneMore(r, att) ==
    CASE r \in {"timeout", "exception", "list"} ->
            IF att < MaxRetries THEN "retry" ELSE "raise"
      [] r = "rate" ->
            IF att < MaxRetries THEN "retry" ELSE "return"
      [] OTHER -> "return"

PostSignedStep(r, att) ==
    CASE r \in {"timeout", "exception", "list"} ->
            IF att < MaxRetries - 1 THEN "retry" ELSE "raise"
      [] r = "rate" ->
            IF att < MaxRetries - 1 THEN "retry" ELSE "return"
      [] OTHER -> "return"

BackoffFixed(r, att) == 1

\* the asyncio.sleep before the next attempt, in seconds: (attempt + 1) * 2
\* after error_code 10004, 1 after a timeout or another exception
BackoffAfter(r, att) == IF r = "rate" THEN (att + 1) * 2 ELSE 1

\* str(e) of the exception _post_signed lets escape
RaisedReason(r) == IF r = "list" THEN "attribute_error" ELSE r

\* _get_user_assets_supplement: what the host loop does with the data that
\* _post_signed returned
SupplementHandle(d) ==
    CASE d = "list" -> "wrap"
      [] d = "ok" -> "return"
      [] d \in {"biz", "rate"} -> "error"
      [] OTHER -> "wrap"

\* _get_trade_balances: what the host loop does with the returned data
TradeHandle(d) ==
    IF d = "ok" THEN "return" ELSE "error"

HostHandle(op, d) ==
    IF op = "user_info" THEN SupplementHandle(d) ELSE TradeHandle(d)

RecordFailureLastOnly(errors, src, reason) ==
    <<[src |-> src, reason |-> reason]>>

\* errors.append(f"{host}: ...")
RecordFailure(errors, src, reason) ==
    Append(errors, [src |-> src, reason |-> reason])

NoResult == [kind |-> "none", src |-> -1, payload |-> "none",
             wrapped |-> FALSE, errors |-> <<>>]

Returned(src, payload, wrapped) ==
    [kind |-> "return", src |-> src, payload |-> payload,
     wrapped |-> wrapped, errors |-> <<>>]

\* raise Exception(f"Failed to fetch ...: {', '.join(errors)}")
Raised(errors) ==
    [kind |-> "raise", src |-> -1, payload |-> "none",
     wrapped |-> FALSE, errors |-> errors]

\* the fetch is called: the connector is preferred when it is available
StartFetch ==
    /\ hpc = "idle"
    /\ hpc' = "limiter"
    /\ hcont' = IF hconn THEN "connector" ELSE "timestamp"
    /\ UNCHANGED <<hop, hconn, hidx, hatt, herrors, hres,
                   hposts, hgets, hfirst, hallT, hlast, hcreq>>
    /\ UNCHANGED <<limiterVars, hostFrame>>
    /\ UNCHANGED echoVars
    /\ UNCHANGED hwait

\* await self.general_rate_limiter.wait_if_needed(), up to its sleep
HostLimiter ==
    /\ hpc = "limiter"
    /\ wait_if_needed(1)
    /\ hpc' = IF rpc'[1] = "sleeping" THEN "limiter_sleep" ELSE hcont
    /\ UNCHANGED <<hop, hconn, hcont, hidx, hatt, herrors, hres,
                   hposts, hgets, hfirst, hallT, hlast, hcreq>>
    /\ UNCHANGED hostFrame
    /\ UNCHANGED echoVars
    /\ UNCHANGED hwait

HostLimiterResume ==
    /\ hpc = "limiter_sleep"
    /\ wait_if_needed_resume(1)
    /\ hpc' = hcont
    /\ UNCHANGED <<hop, hconn, hcont, hidx, hatt, herrors, hres,
                   hposts, hgets, hfirst, hallT, hlast, hcreq>>
    /\ UNCHANGED hostFrame
    /\ UNCHANGED echoVars
    /\ UNCHANGED hwait

\* the host loop moves on after a failure of host hidx: the next host, or the
\* aggregated error once the list is exhausted
NextHostOrRaise(errs) ==
    IF hidx < Len(RestHosts)
    THEN /\ hidx' = hidx + 1
         /\ hatt' = 0
         /\ hpc' = "limiter"
         /\ hcont' = "timestamp"
         /\ hres' = hres
    ELSE /\ hpc' = "done"
         /\ hres' = Raised(errs)
         /\ UNCHANGED <<hidx, hatt, hcont>>

\* _connector_request and the connector branch of the two fetches. The
\* connector answers like a host, or raises.
ConnectorCall(r) ==
    /\ hpc = "connector"
    /\ hcreq' = hcreq + 2   \* the timestamp GET and the connector's request
    /\ IF r \in TransportFailures
       THEN \* except Exception: errors.append(f"connector: {e}")
            /\ herrors' = RecordFailure(herrors, 0, r)
            /\ hpc' = "limiter"
            /\ hcont' = "timestamp"
            /\ hres' = hres
       ELSE IF hop = "user_info"
       THEN /\ hpc' = "done"
            /\ hcont' = hcont
            /\ IF r = "ok"
               THEN /\ hres' = Returned(0, r, FALSE)
                    /\ herrors' = herrors
               ELSE \* an error_code is appended to errors, then the data is
                    \* returned wrapped all the same
                    /\ hres' = Returned(0, r, TRUE)
                    /\ herrors' = IF r \in {"biz", "rate"}
                                  THEN RecordFailure(herrors, 0, r)
                                  ELSE herrors
       ELSE IF r = "ok"
       THEN /\ hpc' = "done"
            /\ hcont' = hcont
            /\ hres' = Returned(0, r, FALSE)
            /\ herrors' = herrors
       ELSE \* a list has no .get: AttributeError, caught like any exception
            /\ herrors' = RecordFailure(herrors, 0, RaisedReason(r))
            /\ hpc' = "limiter"
            /\ hcont' = "timestamp"
            /\ hres' = hres
    /\ UNCHANGED <<hop, hconn, hidx, hatt, hposts, hgets, hfirst, hallT, hlast>>
    /\ UNCHANGED <<limiterVars, hostFrame>>
    /\ UNCHANGED echoVars
    /\ UNCHANGED hwait

\* _fetch_server_timestamp(base_url): a GET whose failure falls back to the
\* local clock
FetchServerTimestamp ==
    /\ hpc = "timestamp"
    /\ hgets' = [hgets EXCEPT ![hidx] = @ + 1]
    /\ hpc' = "post"
    /\ UNCHANGED <<hop, hconn, hcont, hidx, hatt, herrors, hres,
                   hposts, hfirst, hallT, hlast, hcreq>>
    /\ UNCHANGED <<limiterVars, hostFrame>>
    /\ nonces' = nonces + 1
    /\ hecho' = nonces'
    /\ UNCHANGED <<cecho, sent>>
    /\ UNCHANGED hwait

\* one POST of _post_signed's retry loop and, when the loop ends, the host
\* loop's handling of what it returned or raised
PostAttempt(r) ==
    /\ hpc = "post"
    /\ hposts' = [hposts EXCEPT ![hidx] = @ + 1]
    /\ hfirst' = IF hatt = 0 THEN [hfirst EXCEPT ![hidx] = r] ELSE hfirst
    /\ hallT' = [hallT EXCEPT ![hidx] = @ /\ r \in TransportFailures]
    /\ hlast' = [hlast EXCEPT ![hidx] = r]
    /\ LET step == PostSignedStep(r, hatt)
       IN  CASE step = "retry" ->
                  /\ hatt' = hatt + 1
                  /\ UNCHANGED <<hpc, hcont, hidx, herrors, hres>>
             [] step = "raise" ->
                  /\ herrors' = RecordFailure(herrors, hidx, RaisedReason(r))
                  /\ NextHostOrRaise(herrors')
             [] OTHER ->
                  LET h == HostHandle(hop, r)
                  IN  CASE h = "return" ->
                             /\ hpc' = "done"
                             /\ hres' = Returned(hidx, r, FALSE)
                             /\ UNCHANGED <<hcont, hidx, hatt, herrors>>
                        [] h = "wrap" ->
                             /\ hpc' = "done"
                             /\ hres' = Returned(hidx, r, TRUE)
                             /\ UNCHANGED <<hcont, hidx, hatt, herrors>>
                        [] OTHER ->
                             /\ herrors' = RecordFailure(herrors, hidx, r)
                             /\ NextHostOrRaise(herrors')
    /\ UNCHANGED <<hop, hconn, hgets, hcreq>>
    /\ UNCHANGED <<limiterVars, hostFrame>>
    /\ sent' = Append(sent, hecho)
    /\ UNCHANGED <<nonces, hecho, cecho>>
    /\ hwait' = IF PostSignedStep(r, hatt) = "retry" THEN BackoffAfter(r, hatt) ELSE 0

HostInit ==
    /\ hop \in {"user_info", "user_info_account"}
    /\ hconn \in BOOLEAN
    /\ hpc = "idle"
    /\ hcont = "timestamp"
    /\ hidx = 1
    /\ hatt = 0
    /\ herrors = <<>>
    /\ hres = NoResult
    /\ hposts = [h \in HostIds |-> 0]
    /\ hgets = [h \in HostIds |-> 0]
    /\ hfirst = [h \in HostIds |-> "none"]
    /\ hallT = [h \in HostIds |-> TRUE]
    /\ hlast = [h \in HostIds |-> "none"]
    /\ hcreq = 0
    /\ hwait = 0

(***************************************************************************)
(* Signed contract (futures) request                                       *)
(***************************************************************************)
\* self.contract_hosts: the one configured contract endpoint
ContractHosts == <<"lbkperp.lbank.com">>

\* what one HTTP request of _post_contract_signed can end in:
\*   ok             status 2xx with a JSON body
\*   timeout        httpx.TimeoutException
\*   connect_error  any other transport exception
\*   http_status    raise_for_status() raised
\*   bad_json       response.json() raised
ContractResponses == {"ok", "timeout", "connect_error", "http_status", "bad_json"}

NoError == [src |-> 0, reason |-> "none"]

\* last_error after a failed attempt: a timeout on the last attempt resets
\* it, a timeout before that leaves it, any other failure replaces it
LastErrorAfter(last, src, r, att) ==
    IF r = "timeout"
    THEN IF att < MaxRetries - 1 THEN last ELSE NoError
    ELSE [src |-> src, reason |-> r]

\* if last_error: raise last_error
\* raise Exception("Contract API: all hosts unreachable")
ContractRaise(last) ==
    IF last # NoError
    THEN [kind |-> "raise", payload |-> "none", reasons |-> <<last>>]
    ELSE [kind |-> "raise", payload |-> "none", reasons |-> <<>>]

ContractStart ==
    /\ cpc = "idle"
    /\ cpc' = "limiter"
    /\ UNCHANGED <<cpath, cidx, catt, clast, cres, cfails>>
    /\ UNCHANGED <<limiterVars, contractFrame>>
    /\ UNCHANGED echoVars

\* await self.general_rate_limiter.wait_if_needed(): once per call
ContractLimiter ==
    /\ cpc = "limiter"
    /\ wait_if_needed(1)
    /\ cpc' = IF rpc'[1] = "sleeping" THEN "limiter_sleep" ELSE "timestamp"
    /\ UNCHANGED <<cpath, cidx, catt, clast, cres, cfails>>
    /\ UNCHANGED contractFrame
    /\ UNCHANGED echoVars

ContractLimiterResume ==
    /\ cpc = "limiter_sleep"
    /\ wait_if_needed_resume(1)
    /\ cpc' = "timestamp"
    /\ UNCHANGED <<cpath, cidx, catt, clast, cres, cfails>>
    /\ UNCHANGED contractFrame
    /\ UNCHANGED echoVars

\* timestamp = await self._fetch_server_timestamp(self.rest_hosts[0])
ContractTimestamp ==
    /\ cpc = "timestamp"
    /\ cpc' = "request"
    /\ UNCHANGED <<cpath, cidx, catt, clast, cres, cfails>>
    /\ UNCHANGED <<limiterVars, contractFrame>>
    /\ nonces' = nonces + 1
    /\ cecho' = nonces'
    /\ UNCHANGED <<hecho, sent>>

\* one request of the retry loop
ContractAttempt(r) ==
    /\ cpc = "request"
    /\ IF r = "ok"
       THEN /\ cpc' = "done"
            /\ cres' = [kind |-> "return", payload |-> cpath, reasons |-> <<>>]
            /\ UNCHANGED <<cidx, catt, clast, cfails>>
       ELSE /\ cfails' = Append(cfails, [src |-> cidx, reason |-> r])
            /\ clast' = LastErrorAfter(clast, cidx, r, catt)
            /\ IF catt < MaxRetries - 1
               THEN /\ catt' = catt + 1
                    /\ UNCHANGED <<cpc, cidx, cres>>
               ELSE IF cidx < Len(ContractHosts)
               THEN /\ cidx' = cidx + 1
                    /\ catt' = 0
                    /\ cpc' = "timestamp"
                    /\ cres' = cres
               ELSE /\ cpc' = "done"
                    /\ cres' = ContractRaise(clast')
                    /\ UNCHANGED <<cidx, catt>>
    /\ UNCHANGED cpath
    /\ UNCHANGED <<limiterVars, contractFrame>>
    /\ sent' = Append(sent, cecho)
    /\ UNCHANGED <<nonces, hecho, cecho>>

ContractInit ==
    /\ cpath \in {"account", "position"}
    /\ cpc = "idle"
    /\ cidx = 1
    /\ catt = 0
    /\ clast = NoError
    /\ cres = [kind |-> "none", payload |-> "none", reasons |-> <<>>]
    /\ cfails = <<>>

(***************************************************************************)
(* Price cache                                                             *)
(***************************************************************************)
\* self._price_cache_ttl, in ticks
PriceCacheTtl == 5

\* price maps (lowercase pair symbol -> positive price), as sets of
\* <<symbol, price>> with one pair per symbol
EmptyMap == {}
PriceMapA == {<<"btc_usdt", 5>>, <<"eth_usdt", 2>>, <<"eth_btc", 1>>}
PriceMapB == {<<"btc_usdt", 4>>, <<"xrp_btc", 1>>}
NonEmptyMaps == {PriceMapA, PriceMapB}

\* what the GET of one host can end in: an exception, a status other than
\* 200, or a body that parses to a price map (possibly to no price at all)
PriceResponses ==
    {[kind |-> "exception", prices |-> EmptyMap],
     [kind |-> "status", prices |-> EmptyMap]}
    \cup {[kind |-> "body", prices |-> m] : m \in NonEmptyMaps \cup {EmptyMap}}

IsFreshIgnoringTtl(now, ts, c) == c # EmptyMap

\* (now - self._price_cache_timestamp) < self._price_cache_ttl and self._price_cache
IsFresh(now, ts, c) == (now - ts) < PriceCacheTtl /\ c # EmptyMap

StaleFallbackEmpty(c) == EmptyMap

\* if self._price_cache: return self._price_cache
\* return {}
StaleFallback(c) == IF c # EmptyMap THEN c ELSE EmptyMap

\* the call starts: the cache check and, when the cache is not fresh, the
\* limiter up to its sleep
get_all_prices(p) ==
    /\ ppc[p] = "idle"
    \* coroutines are interchangeable: a new call runs as the least idle one
    /\ \A q \in Callers : q < p => ppc[q] # "idle"
    /\ pcalls < MaxPriceCalls
    /\ pcalls' = pcalls + 1
    /\ pnow' = [pnow EXCEPT ![p] = clock]
    /\ UNCHANGED <<pidx, pfailed, preqs>>
    /\ IF IsFresh(clock, price_cache_timestamp, price_cache)
       THEN /\ ppc' = [ppc EXCEPT ![p] = "done"]
            /\ pret' = [pret EXCEPT ![p] = price_cache]
            /\ pkind' = [pkind EXCEPT ![p] = "fresh"]
            /\ UNCHANGED limiterVars
       ELSE /\ wait_if_needed(p)
            /\ ppc' = [ppc EXCEPT ![p] =
                          IF rpc'[p] = "sleeping" THEN "limiter_sleep" ELSE "host"]
            /\ pret' = [pret EXCEPT ![p] = EmptyMap]
            /\ pkind' = [pkind EXCEPT ![p] = "none"]
    /\ UNCHANGED <<price_cache, price_cache_timestamp>>
    /\ UNCHANGED priceFrame

get_all_prices_admitted(p) ==
    /\ ppc[p] = "limiter_sleep"
    /\ wait_if_needed_resume(p)
    /\ ppc' = [ppc EXCEPT ![p] = "host"]
    /\ UNCHANGED <<price_cache, price_cache_timestamp, pnow, pidx,
                   pret, pkind, pfailed, preqs, pcalls>>
    /\ UNCHANGED priceFrame

\* the GET to host pidx[p] ends in r; the code up to the next GET or to the
\* return
get_all_prices_host(p, r) ==
    /\ ppc[p] = "host"
    /\ preqs' = [preqs EXCEPT ![p] = @ + 1]
    /\ IF r.kind = "body" /\ r.prices # EmptyMap
       THEN /\ price_cache' = r.prices
            /\ price_cache_timestamp' = pnow[p]
            /\ ppc' = [ppc EXCEPT ![p] = "done"]
            /\ pret' = [pret EXCEPT ![p] = r.prices]
            /\ pkind' = [pkind EXCEPT ![p] = "refreshed"]
            /\ UNCHANGED <<pidx, pfailed>>
       ELSE /\ pfailed' = [pfailed EXCEPT ![p] = @ + 1]
            /\ UNCHANGED <<price_cache, price_cache_timestamp>>
            /\ IF pidx[p] < Len(RestHosts)
               THEN /\ pidx' = [pidx EXCEPT ![p] = @ + 1]
                    /\ UNCHANGED <<ppc, pret, pkind>>
               ELSE /\ ppc' = [ppc EXCEPT ![p] = "done"]
                    /\ pret' = [pret EXCEPT ![p] = StaleFallback(price_cache)]
                    /\ pkind' = [pkind EXCEPT ![p] =
                                    IF price_cache # EmptyMap THEN "stale" ELSE "empty"]
                    /\ pidx' = pidx
    /\ UNCHANGED <<pnow, pcalls>>
    /\ UNCHANGED <<limiterVars, priceFrame>>

\* the caller takes the result; it may call again
get_all_prices_return(p) ==
    /\ ppc[p] = "done"
    /\ ppc' = [ppc EXCEPT ![p] = "idle"]
    /\ pnow' = [pnow EXCEPT ![p] = 0]
    /\ pidx' = [pidx EXCEPT ![p] = 1]
    /\ pret' = [pret EXCEPT ![p] = EmptyMap]
    /\ pkind' = [pkind EXCEPT ![p] = "none"]
    /\ pfailed' = [pfailed EXCEPT ![p] = 0]
    /\ preqs' = [preqs EXCEPT ![p] = 0]
    /\ UNCHANGED <<price_cache, price_cache_timestamp, pcalls>>
    /\ UNCHANGED <<limiterVars, priceFrame>>

\* the service was just constructed: the cache is empty and its timestamp 0
\* lies at least a TTL in the past
PriceInit ==
    /\ price_cache = EmptyMap
    /\ price_cache_timestamp = 0
    /\ ppc = [p \in Callers |-> "idle"]
    /\ pnow = [p \in Callers |-> 0]
    /\ pidx = [p \in Callers |-> 1]
    /\ pret = [p \in Callers |-> EmptyMap]
    /\ pkind = [p \in Callers |-> "none"]
    /\ pfailed = [p \in Callers |-> 0]
    /\ preqs = [p \in Callers |-> 0]
    /\ pcalls = 0

(***************************************************************************)
(* Valuation and normalisation                                             *)
(***************************************************************************)
\* Python's None and a present value
None == <<>>
Some(v) == <<v>>

\* float(x or 0)
OrZero(o) == IF o = None THEN 0 ELSE o[1]

\* str.upper() and str.lower() on the symbols of the model
UpperOf(s) ==
    CASE s \in {"btc", "BTC"} -> "BTC"
      [] s \in {"eth", "ETH", "Eth"} -> "ETH"
      [] s \in {"usdt", "USDT", "Usdt"} -> "USDT"
      [] s \in {"busd", "BUSD"} -> "BUSD"
      [] s \in {"xrp", "XRP"} -> "XRP"
      [] s \in {"doge", "DOGE"} -> "DOGE"
      [] OTHER -> s

LowerOf(s) ==
    CASE s \in {"btc", "BTC"} -> "btc"
      [] s \in {"eth", "ETH", "Eth"} -> "eth"
      [] s \in {"usdt", "USDT", "Usdt"} -> "usdt"
      [] s \in {"busd", "BUSD"} -> "busd"
      [] s \in {"xrp", "XRP"} -> "xrp"
      [] s \in {"doge", "DOGE"} -> "doge"
      [] OTHER -> s

\* price_map.get(pair, 0)
PairPrice(pm, pair) ==
    IF \E e \in pm : e[1] = pair
    THEN (CHOOSE e \in pm : e[1] = pair)[2]
    ELSE 0

\* the list of _get_price_from_map and the set of _parse_contract_balances
ResolverStablecoins == {"USDT", "USDC", "TUSD", "USDD"}
ContractStablecoins == {"USDT", "USDC", "TUSD", "USDD", "BUSD"}

get_price_from_map_btc_first(symbol, pm) ==
    LET lo == LowerOf(symbol)
    IN  IF UpperOf(symbol) \in ResolverStablecoins THEN Some(1)
        ELSE IF PairPrice(pm, lo \o "_btc") > 0 /\ PairPrice(pm, "btc_usdt") > 0
             THEN Some(PairPrice(pm, lo \o "_btc") * PairPrice(pm, "btc_usdt"))
        ELSE IF PairPrice(pm, lo \o "_usdt") > 0
             THEN Some(PairPrice(pm, lo \o "_usdt"))
        ELSE IF PairPrice(pm, lo \o "_usd") > 0
             THEN Some(PairPrice(pm, lo \o "_usd"))
        ELSE None

\* _get_price_from_map
get_price_from_map(symbol, pm) ==
    LET lo == LowerOf(symbol)
    IN  IF UpperOf(symbol) \in ResolverStablecoins THEN Some(1)
        ELSE IF PairPrice(pm, lo \o "_usdt") > 0
             THEN Some(PairPrice(pm, lo \o "_usdt"))
        ELSE IF PairPrice(pm, lo \o "_usd") > 0
             THEN Some(PairPrice(pm, lo \o "_usd"))
        ELSE IF PairPrice(pm, lo \o "_btc") > 0 /\ PairPrice(pm, "btc_usdt") > 0
             THEN Some(PairPrice(pm, lo \o "_btc") * PairPrice(pm, "btc_usdt"))
        ELSE None

get_asset_tier_core_only(symbol) ==
    IF UpperOf(symbol) \in {"BTC", "ETH", "USDT", "USDC"} THEN "CORE"
    ELSE "SPECULATIVE"

\* _get_asset_tier
get_asset_tier(symbol) ==
    IF UpperOf(symbol) \in {"BTC", "ETH", "USDT", "USDC"} THEN "CORE"
    ELSE IF UpperOf(symbol) \in {"ADA", "DOT", "LINK", "XRP", "MATIC", "BNB", "SOL"}
         THEN "SATELLITE"
    ELSE "SPECULATIVE"

\* An amount field of a payload: absent (<<>>), a JSON number (<<"num", n>>),
\* a numeric string (<<"str", n>>) or a string that is no number (<<"bad">>).
Absent == <<>>
Num(n) == <<"num", n>>
Str(n) == <<"str", n>>
Bad == <<"bad">>

\* truth value of a field in "a or b"
Truthy(f) == f # Absent /\ f # Num(0)

\* float(str(row.get(key, '0') or '0').strip()): Some(value), or None when
\* float() raises ValueError
ParseAmount(f) ==
    IF f = Bad THEN None
    ELSE IF Truthy(f) THEN Some(f[2])
    ELSE Some(0)

\* quantity of a spot record
SpotQuantity(usable, frozen, asset_amt) ==
    IF asset_amt > 0 THEN asset_amt ELSE usable + frozen

DropQuantityNegativeOnly(quantity) == quantity < 0

\* if quantity <= 0: continue
DropQuantity(quantity) == quantity <= 0

\* one iteration of the spot loop of get_portfolio_data: None when the
\* record is skipped, else the asset appended
NormalizeSpotRow(row, pm) ==
    LET symbol == UpperOf(row.coin)
        usable == ParseAmount(row.usableAmt)
        frozen == ParseAmount(row.freezeAmt)
        asset_amt == ParseAmount(row.assetAmt)
    IN  IF symbol = "" THEN None
        ELSE IF None \in {usable, frozen, asset_amt} THEN None
        ELSE LET quantity == SpotQuantity(usable[1], frozen[1], asset_amt[1])
                 price == get_price_from_map(symbol, pm)
                 current_price == IF price # None /\ price[1] > 0 THEN price ELSE None
             IN  IF DropQuantity(quantity) THEN None
                 ELSE Some([symbol |-> symbol,
                            quantity |-> quantity,
                            free |-> usable[1],
                            frozen |-> frozen[1],
                            priceUSD |-> current_price,
                            valueUSD |-> IF current_price # None
                                         THEN Some(quantity * current_price[1])
                                         ELSE None,
                            tier |-> get_asset_tier(symbol),
                            accountType |-> "SPOT"])

\* the spot loop of get_portfolio_data
RECURSIVE SpotAssets(_, _)
SpotAssets(rows, pm) ==
    IF rows = <<>> THEN <<>>
    ELSE LET a == NormalizeSpotRow(Head(rows), pm)
         IN  (IF a = None THEN <<>> ELSE <<a[1]>>) \o SpotAssets(Tail(rows), pm)

\* total_value_usd_final: for a in assets: val = float(a.get("valueUSD") or 0)
RECURSIVE RecomputeTotal(_)
RecomputeTotal(assets) ==
    IF assets = <<>> THEN 0
    ELSE OrZero(Head(assets).valueUSD) + RecomputeTotal(Tail(assets))

Raise == [kind |-> "raise", totalValueUSD |-> 0, assets |-> <<>>, positions |-> <<>>]
Timeout == [kind |-> "timeout", totalValueUSD |-> 0, assets |-> <<>>, positions |-> <<>>]
NotFetched == [kind |-> "none", totalValueUSD |-> 0, assets |-> <<>>, positions |-> <<>>]

\* What _get_trade_balances ended in: it raised or the result was not true
\* (trade_info = None), or a payload whose info/data is an object with a
\* 'balances' list, or a payload whose 'data' is an array.
TradeUnavailable == [kind |-> "raise", shape |-> "none", balances |-> <<>>]
TradeBalances(b) == [kind |-> "ok", shape |-> "object", balances |-> b]
TradeArray == [kind |-> "ok", shape |-> "array", balances |-> <<>>]

\* the 'if trade_info:' block: free_obj, freeze_obj and all_symbols are built
\* and dropped; info.get('balances', []) raises AttributeError when info is
\* a list
TradeInfoRaises(trade) == trade.kind = "ok" /\ trade.shape = "array"

get_portfolio_data_merged(wallet, trade, pm) ==
    IF wallet.kind = "raise" \/ TradeInfoRaises(trade) THEN Raise
    ELSE LET TradeAsset(bal) ==
                 NormalizeSpotRow([coin |-> bal.asset, usableAmt |-> Num(bal.free),
                                   freezeAmt |-> Num(bal.locked),
                                   assetAmt |-> Absent], pm)[1]
             assets == SpotAssets(wallet.rows, pm)
                         \o [i \in DOMAIN trade.balances
                               |-> TradeAsset(trade.balances[i])]
         IN  [kind |-> "return",
              totalValueUSD |-> RecomputeTotal(assets),
              assets |-> assets,
              positions |-> <<>>]

\* get_portfolio_data: wallet is what _get_user_assets_supplement ended in,
\* trade what _get_trade_balances ended in.
get_portfolio_data(wallet, trade, pm) ==
    IF wallet.kind = "raise" \/ TradeInfoRaises(trade) THEN Raise
    ELSE LET assets == SpotAssets(wallet.rows, pm)
         IN  [kind |-> "return",
              totalValueUSD |-> RecomputeTotal(assets),
              assets |-> assets,
              positions |-> <<>>]

\* one entry of the loop of _parse_contract_balances: None when skipped
ParseContractEntry(entry, pm) ==
    LET currency == IF entry.asset = "" THEN "USDT" ELSE UpperOf(entry.asset)
        margin_balance == IF Truthy(entry.marginBalance)
                          THEN Some(entry.marginBalance[2]) ELSE None
        available_balance == IF Truthy(entry.availableBalance)
                             THEN Some(entry.availableBalance[2]) ELSE None
        amount_reference == IF margin_balance # None
                            THEN margin_balance ELSE available_balance
    IN  IF amount_reference = None THEN None
        ELSE LET stable == currency \in ContractStablecoins
                 price_usd == IF stable THEN Some(1)
                              ELSE get_price_from_map(currency, pm)
                 diff == IF margin_balance # None /\ available_balance # None
                         THEN margin_balance[1] - available_balance[1] ELSE 0
             IN  Some([symbol |-> currency,
                       quantity |-> amount_reference[1],
                       free |-> IF available_balance # None
                                THEN available_balance[1] ELSE amount_reference[1],
                       frozen |-> IF diff > 0 THEN diff ELSE 0,
                       priceUSD |-> price_usd,
                       valueUSD |-> IF stable THEN amount_reference
                                    ELSE IF price_usd # None /\ price_usd[1] # 0
                                    THEN Some(amount_reference[1] * price_usd[1])
                                    ELSE None,
                       tier |-> "none",
                       accountType |-> "FUTURES"])

\* _parse_contract_balances
RECURSIVE parse_contract_balances(_, _)
parse_contract_balances(entries, pm) ==
    IF entries = <<>> THEN <<>>
    ELSE LET a == ParseContractEntry(Head(entries), pm)
         IN  (IF a = None THEN <<>> ELSE <<a[1]>>)
             \o parse_contract_balances(Tail(entries), pm)

\* _parse_contract_positions: entries without a symbol are dropped
RECURSIVE parse_contract_positions(_)
parse_contract_positions(raw) ==
    IF raw = <<>> THEN <<>>
    ELSE (IF Head(raw).symbol = "" THEN <<>>
          ELSE <<[symbol |-> UpperOf(Head(raw).symbol),
                  quantity |-> Head(raw).size]>>)
         \o parse_contract_positions(Tail(raw))

\* sorted(set(free_obj.keys() + freeze_obj.keys())) over the symbols of the model
SortedSymbols == <<"BTC", "BUSD", "DOGE", "ETH", "USDT", "XRP">>

\* free_obj / freeze_obj: the last balance record of a symbol wins
RECURSIVE LastBalance(_, _)
LastBalance(balances, sym) ==
    IF balances = <<>> THEN None
    ELSE LET b == balances[Len(balances)]
         IN  IF b.asset # "" /\ UpperOf(b.asset) = sym THEN Some(b)
             ELSE LastBalance(SubSeq(balances, 1, Len(balances) - 1), sym)

\* the item loop of _legacy_futures_balances over the symbols from index i
RECURSIVE LegacyItems(_, _, _)
LegacyItems(balances, pm, i) ==
    IF i > Len(SortedSymbols) THEN <<>>
    ELSE LET sym == SortedSymbols[i]
             b == LastBalance(balances, sym)
             qty == IF b = None THEN 0 ELSE b[1].free + b[1].locked
             price == get_price_from_map(sym, pm)
             priced == price # None /\ price[1] > 0
         IN  (IF b = None \/ qty <= 0 THEN <<>>
              ELSE <<[symbol |-> sym,
                      quantity |-> qty,
                      free |-> b[1].free,
                      frozen |-> b[1].locked,
                      priceUSD |-> IF priced THEN price ELSE None,
                      valueUSD |-> IF priced THEN Some(qty * price[1]) ELSE None,
                      tier |-> "none",
                      accountType |-> "FUTURES"]>>)
             \o LegacyItems(balances, pm, i + 1)

\* get_futures_balances: contract, positions and legacy are what the
\* contract account request, the contract position request and
\* _get_trade_balances end in
get_futures_balances(contract, positions, legacy, pm) ==
    IF contract.kind = "ok" /\ contract.result
    THEN LET assets == parse_contract_balances(contract.list, pm)
         IN  [kind |-> "return",
              totalValueUSD |-> RecomputeTotal(assets),
              assets |-> assets,
              positions |-> IF positions.kind = "ok" /\ positions.result
                            THEN parse_contract_positions(positions.list)
                            ELSE <<>>]
    ELSE IF legacy.kind # "ok" \/ ~legacy.result THEN Raise
    ELSE LET items == LegacyItems(legacy.list, pm, 1)
         IN  [kind |-> "return",
              totalValueUSD |-> RecomputeTotal(items),
              assets |-> items,
              positions |-> <<>>]

(***************************************************************************)
(* PortfolioService.get_portfolio: the live portfolio                      *)
(***************************************************************************)
PortfolioTotalSpotOnly(spot_total, futures_total) == spot_total

\* total = spot_total + futures_total
PortfolioTotal(spot_total, futures_total) == spot_total + futures_total

\* the live_portfolio dict
LivePortfolio(data, detail) ==
    LET spot_total == RecomputeTotal(data.assets)
        futures_total == RecomputeTotal(detail.assets)
    IN  [totalValueUSD |-> PortfolioTotal(spot_total, futures_total),
         spotValueUSD |-> spot_total,
         futuresBalanceUSD |-> futures_total,
         assets |-> data.assets,
         futuresAssets |-> detail.assets,
         futuresPositions |-> detail.positions]

\* inputs of the model
SpotRows ==
    {[coin |-> "btc", usableAmt |-> Str(1), freezeAmt |-> Str(0), assetAmt |-> Str(1)],
     [coin |-> "xrp", usableAmt |-> Str(1), freezeAmt |-> Str(1), assetAmt |-> Str(3)],
     [coin |-> "usdt", usableAmt |-> Str(2), freezeAmt |-> Absent, assetAmt |-> Absent],
     [coin |-> "doge", usableAmt |-> Str(2), freezeAmt |-> Str(1), assetAmt |-> Num(0)],
     [coin |-> "xrp", usableAmt |-> Str(0), freezeAmt |-> Str(0), assetAmt |-> Str(0)],
     [coin |-> "xrp", usableAmt |-> Str(1), freezeAmt |-> Str(-2), assetAmt |-> Str(-1)],
     [coin |-> "", usableAmt |-> Str(1), freezeAmt |-> Str(0), assetAmt |-> Str(1)],
     [coin |-> "btc", usableAmt |-> Bad, freezeAmt |-> Str(0), assetAmt |-> Str(1)]}

RowSeqs ==
    UNION {[1..n -> SpotRows] : n \in 0..MaxRows}

ResultOk(list) == [kind |-> "ok", result |-> TRUE, list |-> list]
ResultFalse == [kind |-> "ok", result |-> FALSE, list |-> <<>>]
Failed == [kind |-> "raise", result |-> FALSE, list |-> <<>>]

ContractAnswers ==
    {Failed, ResultFalse,
     ResultOk(<<[asset |-> "USDT", marginBalance |-> Str(3), availableBalance |-> Str(2)]>>),
     ResultOk(<<[asset |-> "BTC", marginBalance |-> Num(0), availableBalance |-> Num(1)],
                [asset |-> "DOGE", marginBalance |-> Num(2), availableBalance |-> Absent]>>),
     ResultOk(<<[asset |-> "USDT", marginBalance |-> Str(0), availableBalance |-> Str(0)],
                [asset |-> "ETH", marginBalance |-> Num(0), availableBalance |-> Num(0)]>>)}

PositionAnswers ==
    {Failed, ResultFalse,
     ResultOk(<<[symbol |-> "btcusdt", size |-> 1], [symbol |-> "", size |-> 2]>>)}

LegacyAnswers ==
    {Failed,
     ResultOk(<<[asset |-> "usdt", free |-> 2, locked |-> 1],
                [asset |-> "btc", free |-> 0, locked |-> 0],
                [asset |-> "doge", free |-> 1, locked |-> 0]>>)}

\* what the requests of one get_futures_balances call end in: the position
\* request is made only after a result-true account answer, the trade
\* balances are requested only without one
FuturesAnswers ==
    {[contract |-> c, positions |-> pos, legacy |-> Failed] :
        c \in {a \in ContractAnswers : a.kind = "ok" /\ a.result},
        pos \in PositionAnswers}
    \cup
    {[contract |-> c, positions |-> Failed, legacy |-> leg] :
        c \in {a \in ContractAnswers : ~(a.kind = "ok" /\ a.result)},
        leg \in LegacyAnswers}

WalletAnswers(rows) ==
    {[kind |-> "raise", rows |-> <<>>], [kind |-> "ok", rows |-> rows]}

TradeAnswers ==
    {TradeUnavailable, TradeArray,
     TradeBalances(<<[asset |-> "btc", free |-> 1, locked |-> 1]>>)}

\* how long one awaited fetch runs, at least one unit; wait_for cancels it at
\* the timeout
Durations == 1..LiveFetchTimeout
TimedOut(d) == d >= LiveFetchTimeout

SummaryTotalLiveOnly(lp, persisted) ==
    IF lp # None THEN lp[1].totalValueUSD ELSE 0

\* display_total_value
SummaryTotal(lp, persisted) ==
    LET live_total_value == IF lp # None THEN lp[1].totalValueUSD ELSE 0
    IN  IF live_total_value > 0 THEN live_total_value ELSE persisted

\* the summary and the return statement, once the live part has ended in lp
Answer(lp) ==
    /\ gpc' = "done"
    /\ live_portfolio' = lp
    /\ summary_total' = SummaryTotal(lp, persisted_total)
    /\ greturned' = "return"

\* except asyncio.TimeoutError / except Exception: live_portfolio = None
GiveUp(how) ==
    /\ Answer(None)
    /\ gcaught' = how

\* live_data = await asyncio.wait_for(get_portfolio_data(...), timeout=30.0)
FetchLiveData(w, t, d) ==
    /\ gpc = "live_data"
    \* trade_info is awaited after the wallet; a wallet failure or the
    \* cancellation by wait_for ends the call before it
    /\ gtrade' = IF TimedOut(d) \/ w.kind = "raise" THEN gtrade ELSE t
    /\ LET r == IF TimedOut(d) THEN Timeout ELSE get_portfolio_data(w, t, price_map)
       IN  /\ gspot' = r.kind
           /\ IF r.kind = "return"
              THEN /\ live_data' = r
                   /\ gpc' = "futures_1"
                   /\ UNCHANGED <<live_portfolio, gcaught, summary_total, greturned>>
              ELSE /\ live_data' = live_data
                   /\ GiveUp(IF r.kind = "timeout" THEN "TimeoutError" ELSE "Exception")
    /\ gwaited' = gwaited + d
    /\ UNCHANGED <<wallet_rows, price_map, futures_detail, gfut, persisted_total>>
    /\ UNCHANGED portfolioFrame

\* futures_detail = await asyncio.wait_for(get_futures_balances(...), timeout=30.0)
\* the first of the two identical calls
FetchFuturesFirst(c, pos, leg, d) ==
    /\ gpc = "futures_1"
    /\ LET r == IF TimedOut(d) THEN Timeout
                ELSE get_futures_balances(c, pos, leg, price_map)
       IN  /\ gfut' = Append(gfut, r.kind)
           /\ IF r.kind = "return"
              THEN /\ futures_detail' = r
                   /\ gpc' = "futures_2"
                   /\ UNCHANGED <<live_portfolio, gcaught, summary_total, greturned>>
              ELSE /\ futures_detail' = futures_detail
                   /\ GiveUp(IF r.kind = "timeout" THEN "TimeoutError" ELSE "Exception")
    /\ gwaited' = gwaited + d
    /\ UNCHANGED <<wallet_rows, price_map, live_data, gspot, gtrade, persisted_total>>
    /\ UNCHANGED portfolioFrame

\* the second call, and the composition of the live portfolio from it
FetchFuturesSecond(c, pos, leg, d) ==
    /\ gpc = "futures_2"
    /\ LET r == IF TimedOut(d) THEN Timeout
                ELSE get_futures_balances(c, pos, leg, price_map)
       IN  /\ gfut' = Append(gfut, r.kind)
           /\ IF r.kind = "return"
              THEN /\ futures_detail' = r
                   /\ Answer(Some(LivePortfolio(live_data, r)))
                   /\ gcaught' = gcaught
              ELSE /\ futures_detail' = futures_detail
                   /\ GiveUp(IF r.kind = "timeout" THEN "TimeoutError" ELSE "Exception")
    /\ gwaited' = gwaited + d
    /\ UNCHANGED <<wallet_rows, price_map, live_data, gspot, gtrade, persisted_total>>
    /\ UNCHANGED portfolioFrame

\* totals a previous sync may have saved
PersistedTotals == {0, 7}

PortfolioInit ==
    /\ wallet_rows \in RowSeqs
    /\ price_map \in NonEmptyMaps \cup {EmptyMap}
    /\ gpc = "live_data"
    /\ live_data = NotFetched
    /\ futures_detail = NotFetched
    /\ live_portfolio = None
    /\ gspot = "none"
    /\ gtrade = TradeUnavailable
    /\ gfut = <<>>
    /\ gcaught = "none"
    /\ persisted_total \in PersistedTotals
    /\ summary_total = 0
    /\ greturned = "none"
    /\ gwaited = 0

(***************************************************************************)
(* Price resolution of one symbol                                          *)
(***************************************************************************)
QuerySymbols ==
    {"eth", "ETH", "Eth", "xrp", "DOGE", "btc", "usdt", "USDT", "Usdt", "BUSD", "busd"}

PriceValues == (-1)..MaxPrice

\* the pairs _get_price_from_map looks up for a symbol
PairsOf(symbol) ==
    {LowerOf(symbol) \o "_usdt", LowerOf(symbol) \o "_usd",
     LowerOf(symbol) \o "_btc", "btc_usdt"}

\* every price map over those pairs
PriceMapsOf(symbol) ==
    UNION {{{<<k, f[k]>> : k \in K} : f \in [K -> PriceValues]}
           : K \in SUBSET PairsOf(symbol)}

\* self._get_price_from_map(symbol, price_map), and the valuation
\* _parse_contract_balances gives a futures balance of two units of the symbol
ResolvePrice ==
    /\ qpc = "input"
    /\ qpc' = "done"
    /\ qres' = get_price_from_map(qsym, qmap)
    /\ qfut' = ParseContractEntry([asset |-> qsym, marginBalance |-> Num(2),
                                   availableBalance |-> Absent], qmap)[1]
    /\ UNCHANGED <<qsym, qmap>>
    /\ UNCHANGED resolveFrame

NoAsset == [symbol |-> "", quantity |-> 0, free |-> 0, frozen |-> 0,
            priceUSD |-> None, valueUSD |-> None, tier |-> "none",
            accountType |-> "none"]

ResolveInit ==
    /\ qsym \in QuerySymbols
    /\ qmap \in PriceMapsOf(qsym)
    /\ qpc = "input"
    /\ qres = None
    /\ qfut = NoAsset

ResolveParked == qsym = "usdt" /\ qmap = EmptyMap /\ ResolveInit

(***************************************************************************)
(* Request signing                                                         *)
(***************************************************************************)
\* the keys of the model, in the order sorted() gives them
KeyOrder == <<"api_key", "sign", "timestamp">>
SignKeys == {KeyOrder[i] : i \in DOMAIN KeyOrder}

\* parameter values: an int, as the timestamp, or a str
IntVal(n) == <<"int", n>>
StrVal(t) == <<"str", t>>
SignValues == {IntVal(1), StrVal("1"), StrVal("2")}

\* f"{v}"
Format(v) ==
    IF v[1] = "str" THEN v[2]
    ELSE CASE v[2] = 0 -> "0" [] v[2] = 1 -> "1" [] v[2] = 2 -> "2" [] OTHER -> "9"

\* where the mapping holds key k
IndexOf(params, k) == (CHOOSE i \in DOMAIN params : params[i][1] = k)
HasKey(params, k) == \E i \in DOMAIN params : params[i][1] = k

RECURSIVE unsorted_params(_, _)
unsorted_params(params, i) ==
    IF i > Len(params) THEN <<>>
    ELSE (IF params[i][1] # "sign" THEN <<params[i]>> ELSE <<>>)
         \o unsorted_params(params, i + 1)

\* sorted([(k, v) for k, v in params.items() if k != 'sign']), the keys of
\* KeyOrder from index i on
RECURSIVE sorted_params(_, _)
sorted_params(params, i) ==
    IF i > Len(KeyOrder) THEN <<>>
    ELSE (IF KeyOrder[i] # "sign" /\ HasKey(params, KeyOrder[i])
          THEN <<params[IndexOf(params, KeyOrder[i])]>> ELSE <<>>)
         \o sorted_params(params, i + 1)

KeyValueKeyOnly(k, v) == k \o "="

\* f"{k}={v}"
KeyValue(k, v) == k \o "=" \o Format(v)

\* '&'.join(f"{k}={v}" for k, v in sorted_params)
RECURSIVE JoinParams(_)
JoinParams(items) ==
    IF items = <<>> THEN ""
    ELSE IF Len(items) = 1 THEN KeyValue(items[1][1], items[1][2])
    ELSE KeyValue(items[1][1], items[1][2]) \o "&" \o JoinParams(Tail(items))

\* the digests, as injective constructors
Md5Upper(text) == <<"md5", text>>
HmacSha256(key, msg) == <<"hmac_sha256", key, msg>>

\* _sign_params_hmac
sign_params_hmac(params, secret_key) ==
    HmacSha256(secret_key, Md5Upper(JoinParams(sorted_params(params, 1))))

\* the mappings of at most MaxParams entries, as item lists without a
\* repeated key
ParamLists ==
    UNION {{p \in [1..n -> SignKeys \X SignValues] :
              \A i, j \in 1..n : i # j => p[i][1] # p[j][1]}
           : n \in 0..MaxParams}

Secrets == {"secret_a", "secret_b"}

\* the service signs both mappings, and the first one a second time
SignBoth ==
    /\ spc = "input"
    /\ spc' = "done"
    /\ ssig' = sign_params_hmac(sparams, ssecret)
    /\ ssig_other' = sign_params_hmac(sother, ssecret)
    /\ ssig_again' = sign_params_hmac(sparams, ssecret)
    /\ UNCHANGED <<sparams, sother, ssecret>>
    /\ UNCHANGED signFrame

NoSignature == <<>>

SignInit ==
    /\ sparams \in ParamLists
    /\ sother \in ParamLists
    /\ ssecret \in Secrets
    /\ spc = "input"
    /\ ssig = NoSignature
    /\ ssig_other = NoSignature
    /\ ssig_again = NoSignature

SignParked == sparams = <<>> /\ sother = <<>> /\ ssecret = "secret_a" /\ SignInit

(***************************************************************************)
(* Locating the balance list in a wallet response                          *)
(***************************************************************************)
\* A JSON value at a field of the payload: t is its type, "absent" when the
\* key is missing; first tells what an array starts with: nothing ("empty"),
\* an object that has one of coin, usableAmt, assetAmt, freezeAmt ("asset"),
\* another object ("plain") or a scalar; inner is the shape of the 'data'
\* field of an object.
JsonValue(t, first, inner) == [t |-> t, first |-> first, inner |-> inner]
JAbsent == JsonValue("absent", "none", "none")
JArray(first) == JsonValue("array", first, "none")
JObject(inner) == JsonValue("object", "none", inner)
JScalar(t) == JsonValue(t, "none", "none")

ArrayKinds == {"empty", "asset", "plain", "scalar"}
DataShapes ==
    {JAbsent, JScalar("null"), JScalar("string"), JScalar("number")}
      \cup {JObject(i) : i \in {"absent", "empty", "asset"}}
      \cup {JArray(f) : f \in {"empty", "asset"}}
InfoShapes == {JAbsent, JScalar("string"), JArray("empty"), JArray("asset")}
OtherShapes == {JAbsent, JScalar("string")} \cup {JArray(f) : f \in ArrayKinds}

\* a payload: a JSON array, an object with the fields data, info and two
\* more fields x and y (x comes first in the object), or a scalar
Payload(t, first, data, info, x, y) ==
    [t |-> t, first |-> first, data |-> data, info |-> info, x |-> x, y |-> y]
Payloads ==
    {Payload("array", f, JAbsent, JAbsent, JAbsent, JAbsent)
        : f \in {"empty", "asset"}}
      \cup {Payload(t, "none", JAbsent, JAbsent, JAbsent, JAbsent)
              : t \in {"null", "string", "number"}}
      \cup {Payload("object", "none", d, i, x, y)
              : d \in DataShapes, i \in InfoShapes,
                x \in OtherShapes, y \in OtherShapes}

\* the list the function returned: where in the payload it sits ("new" for
\* the fresh list_data = []) and what it starts with; or the exception
ListAt(from, first) == [kind |-> "list", from |-> from, first |-> first]
EmptyList == ListAt("new", "empty")
RaisesAttributeError == [kind |-> "raise", from |-> "none", first |-> "none"]
NotExtracted == [kind |-> "none", from |-> "none", first |-> "none"]

\* isinstance(v, list) and v, isinstance(v[0], dict), and one of the four
\* balance fields is in v[0]
Fingerprinted(v) == v.t = "array" /\ v.first = "asset"

\* self._extract_assets_from_response(response_data)
extract_assets_from_response(p) ==
    IF p.t = "array" THEN ListAt("payload", p.first)
    ELSE IF p.t # "object" THEN EmptyList
    ELSE IF p.data.t = "array" THEN ListAt("data", p.data.first)
    \* response_data.get('data', {}).get('data'): the default {} is used only
    \* when the key is missing, so .get is called on whatever 'data' holds
    ELSE IF p.data.t \notin {"absent", "object"} THEN RaisesAttributeError
    ELSE IF p.data.t = "object" /\ p.data.inner # "absent"
         THEN ListAt("data.data", p.data.inner)
    ELSE IF p.info.t = "array" THEN ListAt("info", p.info.first)
    ELSE IF Fingerprinted(p.x) THEN ListAt("x", p.x.first)
    ELSE IF Fingerprinted(p.y) THEN ListAt("y", p.y.first)
    ELSE EmptyList

\* list_data = self._extract_assets_from_response(wallet)
ExtractAssets ==
    /\ xpc = "input"
    /\ xpc' = "done"
    /\ xres' = extract_assets_from_response(xpayload)
    /\ UNCHANGED xpayload
    /\ UNCHANGED extractFrame

ExtractInit ==
    /\ xpc = "input"
    /\ xres = NotExtracted
    /\ xpayload \in Payloads

ExtractParked ==
    /\ xpayload = Payload("null", "none", JAbsent, JAbsent, JAbsent, JAbsent)
    /\ ExtractInit

(***************************************************************************)
(* PortfolioService.sync_portfolio                                         *)
(***************************************************************************)
\* a PortfolioAsset row made of one fetched asset
AssetRow(asset) ==
    [assetSymbol |-> asset.symbol,
     totalQuantity |-> asset.quantity,
     totalValueUSD |-> OrZero(asset.valueUSD),
     tier |-> asset.tier]

\* the asset rows a previous sync saved along with a total
PersistedAssetsOf(total) ==
    IF total = 0 THEN <<>>
    ELSE <<[assetSymbol |-> "BTC", totalQuantity |-> 1,
            totalValueUSD |-> total, tier |-> "CORE"]>>

\* the active ExchangeAPIKey rows of the user, by exchange name
ConnectedExchanges == {<<>>, <<"lbank">>, <<"okx">>}

\* sync_portfolio with the user's connected exchanges, w and t being what the
\* wallet and trade fetches of get_portfolio_data end in. The session commits
\* when the function returns and rolls back when it raises.
sync_portfolio(connected_exchanges, w, t) ==
    /\ ypc = "idle"
    /\ IF connected_exchanges = <<>>
       THEN \* raise Exception("No connected exchanges found")
            /\ ypc' = "raised"
            /\ yfetch' = "none"
            /\ UNCHANGED <<persisted_total, persisted_assets>>
       ELSE LET lbank == connected_exchanges[1] = "lbank"
                portfolio_data == get_portfolio_data(w, t, price_map)
                fetched == lbank /\ portfolio_data.kind = "return"
                all_assets == IF fetched THEN portfolio_data.assets ELSE <<>>
                total_value_usd == IF fetched THEN portfolio_data.totalValueUSD
                                   ELSE 0
            IN  /\ ypc' = "synced"
                /\ yfetch' = IF ~lbank THEN "none"
                             ELSE IF fetched THEN "ok" ELSE "failed"
                /\ persisted_total' = total_value_usd
                /\ persisted_assets' = [i \in DOMAIN all_assets
                                          |-> AssetRow(all_assets[i])]
    /\ UNCHANGED <<wallet_rows, price_map, gpc, live_data, futures_detail,
                   live_portfolio, gspot, gtrade, gfut, gcaught,
                   summary_total, greturned, gwaited>>
    /\ UNCHANGED syncFrame

SyncInit ==
    /\ ypc = "idle"
    /\ yfetch = "none"
    /\ persisted_assets = PersistedAssetsOf(persisted_total)

\* no echostr generated yet
EchoInit ==
    /\ nonces = 0
    /\ hecho = 0
    /\ cecho = 0
    /\ sent = <<>>

(***************************************************************************)
(* Specifications                                                          *)
(***************************************************************************)
\* time passes; admissions older than one window leave the history, they
\* lie in no window that a later admission can enter
Tick ==
    /\ clock < MaxClock
    /\ clock' = clock + 1
    /\ admitted' = SelectSeq(admitted, LAMBDA t : t >= clock' - WindowTicks)
    /\ UNCHANGED <<requests, rpc, rwake, rslept, rcalls>>
    /\ UNCHANGED limiterFrame

LimiterInit ==
    /\ clock = 0
    /\ requests = <<>>
    /\ admitted = <<>>
    /\ rpc = [p \in Callers |-> "idle"]
    /\ rwake = [p \in Callers |-> 0]
    /\ rslept = FALSE
    /\ rcalls = 0

\* the limiter as earlier requests of the process left it: unused, or
\* filled within the current window
LimiterUsedInit ==
    /\ clock = 0
    /\ requests \in {<<>>, [i \in 1..MaxRequests |-> 0]}
    /\ admitted = requests
    /\ rpc = [p \in Callers |-> "idle"]
    /\ rwake = [p \in Callers |-> 0]
    /\ rslept = FALSE
    /\ rcalls = 0

\* no balance fetch and no contract request in progress
HostParked == HostInit /\ hop = "user_info" /\ ~hconn
ContractParked == ContractInit /\ cpath = "account"
PortfolioParked ==
    /\ wallet_rows = <<>>
    /\ price_map = EmptyMap
    /\ persisted_total = 0
    /\ PortfolioInit

Init ==
    /\ LimiterInit
    /\ HostParked
    /\ ContractParked
    /\ PriceInit
    /\ PortfolioParked
    /\ ResolveParked
    /\ SignParked
    /\ EchoInit
    /\ SyncInit
    /\ ExtractParked

InitHosts ==
    /\ LimiterInit
    /\ HostInit
    /\ ContractParked
    /\ PriceInit
    /\ PortfolioParked
    /\ ResolveParked
    /\ SignParked
    /\ EchoInit
    /\ SyncInit
    /\ ExtractParked

InitContract ==
    /\ LimiterUsedInit
    /\ HostParked
    /\ ContractInit
    /\ PriceInit
    /\ PortfolioParked
    /\ ResolveParked
    /\ SignParked
    /\ EchoInit
    /\ SyncInit
    /\ ExtractParked

\* the wall clock is at least a TTL past the epoch of the cache timestamp, and
\* the limiter, shared with the signed requests, has just admitted one of them
InitPrices ==
    /\ clock = PriceCacheTtl
    /\ requests = <<PriceCacheTtl>>
    /\ admitted = requests
    /\ rpc = [p \in Callers |-> "idle"]
    /\ rwake = [p \in Callers |-> 0]
    /\ rslept = FALSE
    /\ rcalls = 0
    /\ HostParked
    /\ ContractParked
    /\ PriceInit
    /\ PortfolioParked
    /\ ResolveParked
    /\ SignParked
    /\ EchoInit
    /\ SyncInit
    /\ ExtractParked

\* a coroutine calls wait_if_needed
Call(p) ==
    /\ rcalls < MaxCalls
    /\ wait_if_needed(p)
    /\ UNCHANGED limiterFrame

Resume(p) ==
    /\ wait_if_needed_resume(p)
    /\ UNCHANGED limiterFrame

\* one caller at a time: a call starts only when no other call is in progress
CallAlone(p) ==
    /\ \A q \in Callers : rpc[q] = "idle"
    /\ Call(p)

\* several coroutines share the limiter
Next ==
    \/ Tick
    \/ \E p \in Callers : Call(p)
    \/ \E p \in Callers : Resume(p)

Spec == Init /\ [][Next]_vars

\* A call that sleeps wakes at most one window and Epsilon later: calls start
\* while the clock of the model can still reach that time.
CallInTime(p) ==
    /\ clock + WindowTicks + Epsilon <= MaxClock
    /\ Call(p)

NextInTime ==
    \/ Tick
    \/ \E p \in Callers : CallInTime(p)
    \/ \E p \in Callers : Resume(p)

\* Time passes, and the event loop resumes a coroutine whose asyncio.sleep
\* has elapsed.
SpecInTime ==
    /\ Init
    /\ [][NextInTime]_vars
    /\ WF_vars(Tick)
    /\ \A p \in Callers : WF_vars(Resume(p))

\* calls on the limiter issued back to back
NextSeq ==
    \/ Tick
    \/ \E p \in Callers : CallAlone(p)
    \/ \E p \in Callers : Resume(p)

SpecSeq == Init /\ [][NextSeq]_vars

\* time passes while the fetch waits for the limiter to admit it; what the
\* hosts answer does not depend on the time
TickWhileWaiting ==
    /\ "limiter_sleep" \in {hpc, cpc}
    /\ clock < rwake[1]
    /\ Tick

\* one balance fetch over rest_hosts
NextHosts ==
    \/ TickWhileWaiting
    \/ StartFetch
    \/ HostLimiter
    \/ HostLimiterResume
    \/ \E r \in Responses \ {"rate"} : ConnectorCall(r)
    \/ FetchServerTimestamp
    \/ \E r \in Responses : PostAttempt(r)

SpecHosts == InitHosts /\ [][NextHosts]_vars

\* every HTTP request ends within its timeout and every asyncio.sleep ends, so
\* a fetch that can take a step takes one
SpecHostsFair == SpecHosts /\ WF_vars(NextHosts)

\* one signed contract request
NextContract ==
    \/ TickWhileWaiting
    \/ ContractStart
    \/ ContractLimiter
    \/ ContractLimiterResume
    \/ ContractTimestamp
    \/ \E r \in ContractResponses : ContractAttempt(r)

SpecContract == InitContract /\ [][NextContract]_vars

\* coroutines sharing the price cache of one service
NextPrices ==
    \/ Tick
    \/ \E p \in Callers : get_all_prices(p)
    \/ \E p \in Callers : get_all_prices_admitted(p)
    \/ \E p \in Callers : \E r \in PriceResponses : get_all_prices_host(p, r)
    \/ \E p \in Callers : get_all_prices_return(p)

SpecPrices == InitPrices /\ [][NextPrices]_vars

InitPortfolio ==
    /\ LimiterInit
    /\ HostParked
    /\ ContractParked
    /\ PriceInit
    /\ PortfolioInit
    /\ ResolveParked
    /\ SignParked
    /\ EchoInit
    /\ SyncInit
    /\ ExtractParked

\* one get_portfolio call of a user with an active lbank connection
NextPortfolio ==
    \/ \E w \in WalletAnswers(wallet_rows) : \E t \in TradeAnswers :
         \E d \in Durations : FetchLiveData(w, t, d)
    \/ \E a \in FuturesAnswers : \E d \in Durations :
         FetchFuturesFirst(a.contract, a.positions, a.legacy, d)
    \/ \E a \in FuturesAnswers : \E d \in Durations :
         FetchFuturesSecond(a.contract, a.positions, a.legacy, d)

SpecPortfolio == InitPortfolio /\ [][NextPortfolio]_vars

InitResolve ==
    /\ LimiterInit
    /\ HostParked
    /\ ContractParked
    /\ PriceInit
    /\ PortfolioParked
    /\ ResolveInit
    /\ SignParked
    /\ EchoInit
    /\ SyncInit
    /\ ExtractParked

NextResolve == ResolvePrice

SpecResolve == InitResolve /\ [][NextResolve]_vars

InitSign ==
    /\ LimiterInit
    /\ HostParked
    /\ ContractParked
    /\ PriceInit
    /\ PortfolioParked
    /\ ResolveParked
    /\ SignInit
    /\ EchoInit
    /\ SyncInit
    /\ ExtractParked

NextSign == SignBoth

SpecSign == InitSign /\ [][NextSign]_vars

\* a stored portfolio, and a wallet the exchange would answer with
InitSync == InitPortfolio

NextSync ==
    \E e \in ConnectedExchanges : \E w \in WalletAnswers(wallet_rows) :
        \E t \in TradeAnswers : sync_portfolio(e, w, t)

SpecSync == InitSync /\ [][NextSync]_vars

InitExtract ==
    /\ LimiterInit
    /\ HostParked
    /\ ContractParked
    /\ PriceInit
    /\ PortfolioParked
    /\ ResolveParked
    /\ SignParked
    /\ EchoInit
    /\ SyncInit
    /\ ExtractInit

NextExtract == ExtractAssets

SpecExtract == InitExtract /\ [][NextExtract]_vars

(***************************************************************************)
(* Claims about the limiter                                                *)
(***************************************************************************)
\* number of recorded admissions with a timestamp in the closed window [t - W, t]
WindowCount(t) ==
    Cardinality({i \in 1..Len(admitted) :
                    admitted[i] >= t - WindowTicks /\ admitted[i] <= t})

WindowsWithinLimit ==
    \A t \in 0..(MaxClock + WindowTicks) : WindowCount(t) <= MaxRequests

\* C1: with calls issued one after another on one limiter, no window of
\* length window_seconds holds more than max_requests recorded admissions
\* (and the deque never holds more than max_requests entries).
C1_SequentialWindow ==
    /\ WindowsWithinLimit
    /\ Len(requests) <= MaxRequests

\* a call had to sleep, was then admitted, and the deque is full again
C1_Witness ==
    /\ rslept
    /\ Len(requests) = MaxRequests
    /\ \A p \in Callers : rpc[p] = "idle"

\* C2: under concurrent callers the admission check-and-append is atomic:
\* neither the deque nor any trailing window ever holds more than
\* max_requests admissions.
C2_ConcurrentAtomicAdmission ==
    /\ Len(requests) <= MaxRequests
    /\ WindowsWithinLimit

(***************************************************************************)
(* Claims about the host failover                                          *)
(***************************************************************************)
\* C5: in the spot-balance fetch, when the first host fails in transport on
\* every attempt and the second host answers its first POST with a success
\* payload, the fetch returns the second host's payload, raises nothing and
\* never contacts the third host.
C5_FailoverToSecondHost ==
    ( /\ hop = "user_info"
      /\ hpc = "done"
      /\ hposts[1] = MaxRetries
      /\ hallT[1]
      /\ hfirst[2] \in {"ok", "list"} )
    => ( /\ hres.kind = "return"
         /\ hres.src = 2
         /\ hposts[3] = 0
         /\ hgets[3] = 0 )

\* the failure reason the host loop records for host h
HostFailure(h) == RaisedReason(hlast[h])

\* C6: when every host fails, the fetch raises one error only after all
\* hosts were attempted, and the error holds one failure reason per source
\* attempted (the connector first when it is used), in host order.
C6_AggregatedErrorPerHost ==
    (hpc = "done" /\ hres.kind = "raise")
    => LET e == hres.errors
           off == IF hconn THEN 1 ELSE 0
       IN  /\ \A h \in HostIds : hposts[h] >= 1
           /\ Len(e) = Len(RestHosts) + off
           /\ hconn => e[1].src = 0
           /\ \A h \in HostIds :
                 /\ e[h + off].src = h
                 /\ e[h + off].reason = HostFailure(h)

\* every host failed, each for a different reason
C6_Witness ==
    /\ hpc = "done"
    /\ hres.kind = "raise"
    /\ hop = "user_info_account"
    /\ ~hconn
    /\ hres.errors[1].reason = "timeout"
    /\ hres.errors[2].reason = "biz"
    /\ hres.errors[3].reason = "attribute_error"

\* C8: a business error answered by a host on the spot-balance fetch is not
\* retried: no request goes to any later host and the fetch fails.
C8_BusinessErrorNotRetried ==
    \A h \in HostIds :
        (hop = "user_info" /\ hlast[h] = "biz")
        => /\ \A k \in HostIds : k > h => (hposts[k] = 0 /\ hgets[k] = 0)
           /\ hpc = "done" => hres.kind = "raise"

(***************************************************************************)
(* Claims about the contract request                                       *)
(***************************************************************************)
\* the hosts the call sent a request to and that failed
FailedContractHosts == {cfails[i].src : i \in 1..Len(cfails)}

\* the failure of host h that the call saw last
RECURSIVE LastFailureOf(_, _)
LastFailureOf(h, n) ==
    IF n = 0 THEN "none"
    ELSE IF cfails[n].src = h THEN cfails[n].reason
    ELSE LastFailureOf(h, n - 1)

\* C7: when _post_contract_signed fails on every contract host, the error it
\* raises reports the failure reason of each host attempted.
C7_ContractErrorReportsEachHost ==
    (cpc = "done" /\ cres.kind = "raise")
    => \A h \in FailedContractHosts :
          \E i \in 1..Len(cres.reasons) :
              /\ cres.reasons[i].src = h
              /\ cres.reasons[i].reason = LastFailureOf(h, Len(cfails))

(***************************************************************************)
(* Claims about the price cache                                            *)
(***************************************************************************)
\* the step in which the call of p returns after every host failed
AllHostsFailedReturn(p) ==
    /\ ppc[p] = "host"
    /\ ppc'[p] = "done"
    /\ pfailed'[p] = Len(RestHosts)

\* C9: when every host fails during a refresh and the cache holds a
\* non-empty snapshot, the call returns that snapshot (never an empty
\* mapping) and leaves the cache contents and the cache timestamp unchanged.
C9_StaleFallback ==
    [][\A p \in Callers :
          (AllHostsFailedReturn(p) /\ price_cache # EmptyMap)
          => /\ pret'[p] = price_cache
             /\ pret'[p] # EmptyMap
             /\ price_cache' = price_cache
             /\ price_cache_timestamp' = price_cache_timestamp]_vars

\* a call found the snapshot expired, every host failed, and it returned the
\* expired snapshot
C9_Witness ==
    \E p \in Callers :
        /\ ppc[p] = "done"
        /\ pkind[p] = "stale"
        /\ pfailed[p] = Len(RestHosts)
        /\ pret[p] = price_cache
        /\ pret[p] # EmptyMap
        /\ pnow[p] - price_cache_timestamp >= PriceCacheTtl

\* C10: a call that finds the cache non-empty and younger than the TTL
\* returns the cached snapshot at once, takes no limiter admission, sends no
\* HTTP request and leaves cache and timestamp unchanged; and a call that
\* returns the cached snapshot when its age is at or above the TTL is a call
\* in which every host failed.
C10_FreshServedStaleOnlyOnFailure ==
    [][\A p \in Callers :
          /\ ( /\ ppc[p] = "idle"
               /\ ppc'[p] # "idle"
               /\ price_cache # EmptyMap
               /\ clock - price_cache_timestamp < PriceCacheTtl )
             => /\ ppc'[p] = "done"
                /\ pret'[p] = price_cache
                /\ preqs'[p] = 0
                /\ UNCHANGED <<price_cache, price_cache_timestamp,
                               requests, rcalls, rpc>>
          /\ ( /\ ppc[p] # "done"
               /\ ppc'[p] = "done"
               /\ pkind'[p] # "refreshed"
               /\ pret'[p] # EmptyMap
               /\ clock - price_cache_timestamp >= PriceCacheTtl )
             => pfailed'[p] = Len(RestHosts)]_vars

\* a call was answered from the fresh cache
C10_Witness ==
    \E p \in Callers :
        /\ ppc[p] = "done"
        /\ pkind[p] = "fresh"
        /\ pret[p] = price_cache
        /\ clock > price_cache_timestamp
        /\ preqs[p] = 0


(***************************************************************************)
(* Live portfolio composition                                              *)
(***************************************************************************)
\* C3: when the spot fetch succeeded and a futures fetch raised, get_portfolio
\* ends with a live portfolio whose total is the spot total and whose futures
\* assets and futures positions are empty.
C3_FuturesFailureDegradesToSpotOnly ==
    (/\ gpc = "done"
     /\ gspot = "return"
     /\ \E i \in DOMAIN gfut : gfut[i] = "raise")
    => /\ live_portfolio # None
       /\ live_portfolio[1].totalValueUSD = live_data.totalValueUSD
       /\ live_portfolio[1].futuresAssets = <<>>
       /\ live_portfolio[1].futuresPositions = <<>>

\* the sum of valueUSD over a list, null counted as 0
RECURSIVE SumValueUSD(_, _)
SumValueUSD(assets, n) ==
    IF n = 0 THEN 0
    ELSE SumValueUSD(assets, n - 1)
         + (IF assets[n].valueUSD = None THEN 0 ELSE assets[n].valueUSD[1])

\* C4: the total of get_portfolio_data is the sum of valueUSD over the assets
\* it returns, and the total of the live portfolio is the sum over its spot
\* assets plus the sum over its futures assets, null counted as 0.
C4_TotalIsSumOfValues ==
    /\ live_data.kind = "return"
       => live_data.totalValueUSD
            = SumValueUSD(live_data.assets, Len(live_data.assets))
    /\ live_portfolio # None
       => LET lp == live_portfolio[1]
          IN  lp.totalValueUSD
                = SumValueUSD(lp.assets, Len(lp.assets))
                  + SumValueUSD(lp.futuresAssets, Len(lp.futuresAssets))

\* a live portfolio with an unpriced spot asset, a priced spot asset and a
\* valued futures asset
C4_Witness ==
    /\ live_portfolio # None
    /\ \E i \in DOMAIN live_portfolio[1].assets :
         live_portfolio[1].assets[i].valueUSD = None
    /\ \E i \in DOMAIN live_portfolio[1].assets :
         live_portfolio[1].assets[i].valueUSD # None
    /\ \E i \in DOMAIN live_portfolio[1].futuresAssets :
         /\ live_portfolio[1].futuresAssets[i].valueUSD # None
         /\ live_portfolio[1].futuresAssets[i].valueUSD[1] > 0


(***************************************************************************)
(* Price resolution                                                        *)
(***************************************************************************)
\* the pair is in the map with a positive price
Listed(pm, pair) == \E e \in pm : e[1] = pair /\ e[2] > 0
PriceAt(pm, pair) == (CHOOSE e \in pm : e[1] = pair)[2]

\* the three routes of a symbol, in the order of their priority: None, or
\* the price the route gives
RoutesOf(symbol, pm) ==
    LET lo == LowerOf(symbol)
    IN  <<IF Listed(pm, lo \o "_usdt") THEN Some(PriceAt(pm, lo \o "_usdt")) ELSE None,
          IF Listed(pm, lo \o "_usd") THEN Some(PriceAt(pm, lo \o "_usd")) ELSE None,
          IF Listed(pm, lo \o "_btc") /\ Listed(pm, "btc_usdt")
          THEN Some(PriceAt(pm, lo \o "_btc") * PriceAt(pm, "btc_usdt")) ELSE None>>

\* C11: for a symbol that is no stablecoin, _get_price_from_map returns the
\* first of the routes usdt, usd, btc x btc_usdt that exists with a positive
\* price, and None when no route does.
C11_FirstRouteWins ==
    (qpc = "done" /\ UpperOf(qsym) \notin ResolverStablecoins)
    => LET routes == RoutesOf(qsym, qmap)
       IN  /\ (\A i \in 1..3 : routes[i] = None) => qres = None
           /\ \A i \in 1..3 :
                (routes[i] # None /\ \A j \in 1..(i - 1) : routes[j] = None)
                => qres = routes[i]

\* both the usdt route and the BTC route exist, with different values
C11_Witness ==
    /\ qpc = "done"
    /\ UpperOf(qsym) \notin ResolverStablecoins
    /\ RoutesOf(qsym, qmap)[1] # None
    /\ RoutesOf(qsym, qmap)[3] # None
    /\ RoutesOf(qsym, qmap)[1] # RoutesOf(qsym, qmap)[3]
    /\ qres = RoutesOf(qsym, qmap)[1]

\* C12: a symbol that some part of the service values as a stablecoin resolves
\* to exactly 1 for every price map, in the resolver and in the futures
\* balance parser alike.
C12_StablecoinIsOneEverywhere ==
    (qpc = "done" /\ UpperOf(qsym) \in ResolverStablecoins \cup ContractStablecoins)
    => /\ qres = Some(1)
       /\ qfut.priceUSD = Some(1)


(***************************************************************************)
(* Retained assets                                                         *)
(***************************************************************************)
\* the total of a spot balance record as the exchange reports it
RecordTotal(row) ==
    LET u == ParseAmount(row.usableAmt)
        f == ParseAmount(row.freezeAmt)
        a == ParseAmount(row.assetAmt)
    IN  IF a[1] > 0 THEN a[1] ELSE u[1] + f[1]

Parses(row) ==
    None \notin {ParseAmount(row.usableAmt), ParseAmount(row.freezeAmt),
                 ParseAmount(row.assetAmt)}

C14_FuturesQuantityPositive ==
    futures_detail.kind = "return"
    => \A i \in DOMAIN futures_detail.assets : futures_detail.assets[i].quantity > 0


(***************************************************************************)
(* Timeouts of the live fetch                                              *)
(***************************************************************************)
\* C15: when a wait_for of the live fetch times out, get_portfolio returns
\* with no live portfolio and with the persisted total as the summary total.
C15_TimeoutFallsBackToPersisted ==
    (gpc = "done" /\ gcaught = "TimeoutError")
    => /\ greturned = "return"
       /\ live_portfolio = None
       /\ summary_total = persisted_total

\* the futures fetch timed out after the spot fetch had returned assets, and
\* a total was persisted
C15_Witness ==
    /\ gpc = "done"
    /\ gcaught = "TimeoutError"
    /\ persisted_total > 0
    /\ live_data.kind = "return"
    /\ live_data.totalValueUSD > 0

\* C16: the time get_portfolio waits for live exchange data never exceeds the
\* 30 s timeout in total.
C16_OneOverallTimeout == gwaited <= LiveFetchTimeout


(***************************************************************************)
(* Signatures                                                              *)
(***************************************************************************)
\* the key/value pairs of a mapping other than 'sign'
SignedPairs(params) ==
    {params[i] : i \in {j \in DOMAIN params : params[j][1] # "sign"}}

SignedKeys(params) == {kv[1] : kv \in SignedPairs(params)}

\* C17: the signature is the same for two mappings that hold the same
\* key/value pairs other than 'sign', whatever their insertion order and
\* whether or not they hold a 'sign' entry, and the same on a repeated call.
C17_SignatureDeterministic ==
    spc = "done"
    => /\ ssig_again = ssig
       /\ SignedPairs(sparams) = SignedPairs(sother) => ssig_other = ssig

\* two mappings with the same two signed pairs in opposite insertion order
C17_Witness ==
    /\ spc = "done"
    /\ Len(sparams) = 2
    /\ Len(sother) = 2
    /\ sother[1] = sparams[2]
    /\ sother[2] = sparams[1]
    /\ "sign" \notin SignedKeys(sparams) \cup {sparams[1][1], sparams[2][1]}

\* the keys on which two mappings with the same signed keys differ
DifferingKeys(p, q) ==
    {k \in SignedKeys(p) :
        p[IndexOf(p, k)][2] # q[IndexOf(q, k)][2]}

\* the keys on which their values differ in the text they render to
DifferingTexts(p, q) ==
    {k \in SignedKeys(p) :
        Format(p[IndexOf(p, k)][2]) # Format(q[IndexOf(q, k)][2])}

\* C18 as stated: two mappings with the same keys that differ in the value
\* of a single parameter other than 'sign' have different signatures.
C18_ValueChangeChangesSignature ==
    (/\ spc = "done"
     /\ SignedKeys(sparams) = SignedKeys(sother)
     /\ Cardinality(DifferingKeys(sparams, sother)) = 1)
    => ssig # ssig_other

\* C18, amended: two mappings with the same keys that differ in the text
\* str(v) of the value of a parameter other than 'sign' have different
\* signatures.
C18_TextChangeChangesSignature ==
    (/\ spc = "done"
     /\ SignedKeys(sparams) = SignedKeys(sother)
     /\ DifferingTexts(sparams, sother) # {})
    => ssig # ssig_other

\* two mappings of two parameters that differ in the text of one value only
C18_Witness ==
    /\ spc = "done"
    /\ SignedKeys(sparams) = SignedKeys(sother)
    /\ Cardinality(SignedKeys(sparams)) = 2
    /\ Cardinality(DifferingTexts(sparams, sother)) = 1
    /\ ssig # ssig_other


(***************************************************************************)
(* Echostr of the signed requests                                          *)
(***************************************************************************)
\* C19: no two signed requests sent by the service carry the same echostr.
C19_FreshEchostrPerRequest ==
    \A i, j \in DOMAIN sent : i # j => sent[i] # sent[j]


(***************************************************************************)
(* Retry loop of _post_signed                                              *)
(***************************************************************************)
\* the _post_signed call against host h failed in transport on every attempt
\* it made so far
OnlyTransportFailures(h) == hposts[h] >= 1 /\ hallT[h]

\* the failure of host h was raised to the host loop, which recorded it
FailureRaised(h) ==
    \E i \in DOMAIN herrors :
        herrors[i].src = h /\ herrors[i].reason = hlast[h]

\* C20: the _post_signed call against a host sends at most 3 POSTs; while it
\* has only seen timeouts and transport exceptions and attempts remain it is
\* still in its retry loop, after the third such failure it has raised the
\* failure; and the fetch always ends, returning or raising.
C20_AtMostThreeAttempts ==
    /\ [](\A h \in HostIds :
            /\ hposts[h] <= MaxRetries
            /\ (OnlyTransportFailures(h) /\ hposts[h] < MaxRetries)
                 => (hidx = h /\ hpc = "post" /\ hatt = hposts[h])
            /\ (OnlyTransportFailures(h) /\ hposts[h] = MaxRetries)
                 => FailureRaised(h))
    /\ <>(hpc = "done" /\ hres.kind \in {"return", "raise"})

\* a host timed out three times and the fetch went on and ended
C20_Witness ==
    /\ hpc = "done"
    /\ \E h \in HostIds :
         /\ hposts[h] = MaxRetries
         /\ hallT[h]
         /\ hlast[h] = "timeout"
         /\ FailureRaised(h)

\* a POST was sent in this step, and r is the answer it got
Posted(r) == hposts' # hposts /\ hlast'[hidx] = r

\* this step left the call in its retry loop against the same host, having
\* slept w seconds, with nothing recorded
RetriedAfter(w) ==
    /\ hwait' = w
    /\ hatt' = hatt + 1
    /\ hidx' = hidx
    /\ hpc' = "post"
    /\ herrors' = herrors
    /\ hres' = hres

\* this step recorded the 10004 answer for the host and moved to the next
\* host, or raised the aggregate after the last one
RateSurfaced ==
    /\ herrors' = Append(herrors, [src |-> hidx, reason |-> "rate"])
    /\ IF hidx < Len(RestHosts)
       THEN hidx' = hidx + 1 /\ hatt' = 0 /\ hpc' = "limiter"
       ELSE hpc' = "done" /\ hres' = Raised(herrors')

\* C21 as stated: a 10004 answer reaches the host loop only when all three
\* attempts against that host were answered with 10004 (the first answer and
\* the one that set the wait before the third attempt).
C21_SurfacedOnlyAfterThreeRateAnswers ==
    [][(Posted("rate") /\ herrors' # herrors)
          => (hfirst[hidx] = "rate" /\ hwait = 2 * MaxRetries - 2)]_vars

\* C21 (amended): a 10004 answer to the first or second attempt is retried
\* against the same host after 2 s times the attempt number (2 s, 4 s) with
\* nothing recorded, a timeout or transport exception after 1 s; a 10004
\* answer reaches the host loop only as the answer to the third attempt,
\* whatever the earlier attempts got, and then the failure is recorded for
\* that host and the next host is tried.
C21_RateLimitRetriedWithGrowingWaits ==
    [][/\ (Posted("rate") /\ hatt < MaxRetries - 1)
            => RetriedAfter(2 * (hatt + 1))
       /\ (\E r \in TransportFailures : Posted(r) /\ hatt < MaxRetries - 1)
            => RetriedAfter(1)
       /\ (Posted("rate") /\ hatt = MaxRetries - 1) => RateSurfaced
       /\ (Posted("rate") /\ herrors' # herrors) => hatt = MaxRetries - 1]_vars

\* a host answered its third attempt with 10004 after a 4 s wait, the failure
\* was recorded and the next host is being tried
C21_Witness ==
    \E h \in HostIds :
        /\ hposts[h] = MaxRetries
        /\ hlast[h] = "rate"
        /\ hfirst[h] = "rate"
        /\ FailureRaised(h)
        /\ hidx = h + 1
        /\ hpc \in {"limiter", "timestamp", "post"}

(***************************************************************************)
(* Claims about locating the balance list                                  *)
(***************************************************************************)
\* the array at 'data.data', when 'data' is an object that has one
InnerArray(p) == p.data.t = "object" /\ p.data.inner # "absent"

\* the list the stated precedence selects
ByPrecedence(p) ==
    IF p.t = "array" THEN ListAt("payload", p.first)
    ELSE IF p.t # "object" THEN EmptyList
    ELSE IF p.data.t = "array" THEN ListAt("data", p.data.first)
    ELSE IF InnerArray(p) THEN ListAt("data.data", p.data.inner)
    ELSE IF p.info.t = "array" THEN ListAt("info", p.info.first)
    ELSE IF Fingerprinted(p.x) THEN ListAt("x", p.x.first)
    ELSE IF Fingerprinted(p.y) THEN ListAt("y", p.y.first)
    ELSE EmptyList

\* C22: the function returns the payload itself when it is an array, else
\* 'data' when that is an array, else 'data.data', else 'info', else the first
\* array-valued field whose first element carries a balance field, else an
\* empty list.
C22_ExtractionPrecedence ==
    xpc = "done" => xres = ByPrecedence(xpayload)

\* an asset-bearing array sits somewhere in the payload
AssetArrayExists(p) ==
    \/ p.t = "array" /\ p.first = "asset"
    \/ /\ p.t = "object"
       /\ \/ Fingerprinted(p.data)
          \/ p.data.t = "object" /\ p.data.inner = "asset"
          \/ \E v \in {p.info, p.x, p.y} : Fingerprinted(v)

\* C23: for a payload of any shape the function raises nothing; when neither
\* 'data' nor 'data.data' is an array it returns the 'info' array, or else the
\* fingerprinted array, when there is one; and it returns a list without
\* assets only when no asset-bearing array exists in the payload.
C23_ExtractionNeverRaises ==
    xpc = "done" =>
        /\ xres.kind = "list"
        /\ (xpayload.t = "object" /\ xpayload.data.t # "array"
              /\ ~InnerArray(xpayload))
             => /\ xpayload.info.t = "array" => xres.from = "info"
                /\ (xpayload.info.t # "array"
                      /\ (Fingerprinted(xpayload.x) \/ Fingerprinted(xpayload.y)))
                     => xres.from \in {"x", "y"}
        /\ xres.first # "asset" => ~AssetArrayExists(xpayload)

(***************************************************************************)
(* Quantity of a spot record                                               *)
(***************************************************************************)
\* the two amounts agree within the epsilon of 0.0001: amounts of the model
\* are whole units, so they agree only when they are equal
WithinEpsilon(a, b) == a = b

\* the quantity the statement gives a record whose amounts parse
StatedQuantity(row) ==
    LET u == ParseAmount(row.usableAmt)[1]
        f == ParseAmount(row.freezeAmt)[1]
        a == ParseAmount(row.assetAmt)[1]
    IN  IF a > 0 /\ WithinEpsilon(a, u + f) THEN a ELSE u + f

\* the stated quantities of the records that are retained, in payload order
RECURSIVE StatedQuantities(_)
StatedQuantities(rows) ==
    IF rows = <<>> THEN <<>>
    ELSE LET row == Head(rows)
             keep == /\ row.coin # ""
                     /\ Parses(row)
                     /\ StatedQuantity(row) > 0
         IN  (IF keep THEN <<StatedQuantity(row)>> ELSE <<>>)
               \o StatedQuantities(Tail(rows))

\* C24: the quantity of a spot record is assetAmt when it is present and
\* agrees with usableAmt + freezeAmt within the epsilon, and usableAmt +
\* freezeAmt in every other case.
C24_QuantityReconciled ==
    live_data.kind = "return"
    => [i \in DOMAIN live_data.assets |-> live_data.assets[i].quantity]
         = StatedQuantities(wallet_rows)

(***************************************************************************)
(* Account types                                                           *)
(***************************************************************************)
\* C25: every asset returned by get_portfolio_data has accountType SPOT and
\* every asset returned by get_futures_balances has accountType FUTURES; the
\* trade account balances fetched inside get_portfolio_data enter neither its
\* asset list, which holds the retained spot records and nothing else, nor
\* its total, which is the sum over that list.
C25_SpotAndFuturesKeptApart ==
    /\ live_data.kind = "return"
       => /\ \A i \in DOMAIN live_data.assets :
               live_data.assets[i].accountType = "SPOT"
          /\ live_data.assets = SpotAssets(wallet_rows, price_map)
          /\ live_data.totalValueUSD
               = SumValueUSD(live_data.assets, Len(live_data.assets))
    /\ futures_detail.kind = "return"
       => \A i \in DOMAIN futures_detail.assets :
            futures_detail.assets[i].accountType = "FUTURES"

\* the trade account answered with a balance, the spot fetch returned a
\* priced asset, and the futures fetch returned an asset
C25_Witness ==
    /\ gtrade.kind = "ok"
    /\ gtrade.balances # <<>>
    /\ live_data.kind = "return"
    /\ live_data.totalValueUSD > 0
    /\ futures_detail.kind = "return"
    /\ futures_detail.assets # <<>>

(***************************************************************************)
(* Normalised spot assets                                                  *)
(***************************************************************************)
\* the symbols of the model, in upper case
UppercaseSymbols == {"BTC", "ETH", "USDT", "BUSD", "XRP", "DOGE"}

\* C26: every retained spot asset has an uppercase symbol; its tier is CORE
\* for BTC, ETH, USDT, USDC, SATELLITE for ADA, DOT, LINK, XRP, MATIC, BNB,
\* SOL and SPECULATIVE otherwise; priceUSD is the price the resolver finds
\* for the symbol and valueUSD = quantity * priceUSD, or both are null when
\* no price resolves; and its accountType is SPOT.
C26_RetainedAssetNormalised ==
    live_data.kind = "return"
    => \A i \in DOMAIN live_data.assets :
         LET a == live_data.assets[i]
             price == get_price_from_map(a.symbol, price_map)
         IN  /\ a.symbol \in UppercaseSymbols
             /\ a.tier = (IF a.symbol \in {"BTC", "ETH", "USDT", "USDC"}
                            THEN "CORE"
                          ELSE IF a.symbol \in {"ADA", "DOT", "LINK", "XRP",
                                                "MATIC", "BNB", "SOL"}
                            THEN "SATELLITE"
                          ELSE "SPECULATIVE")
             /\ price # None => /\ a.priceUSD = price
                                /\ a.valueUSD = Some(a.quantity * price[1])
             /\ price = None => a.priceUSD = None /\ a.valueUSD = None
             /\ a.accountType = "SPOT"

\* the record coin btc, assetAmt 1 with btc_usdt at 5 became BTC, quantity 1,
\* valueUSD 5, CORE, SPOT, next to an asset of another tier
C26_Witness ==
    /\ live_data.kind = "return"
    /\ wallet_rows # <<>>
    /\ wallet_rows[1].coin = "btc"
    /\ live_data.assets # <<>>
    /\ LET a == live_data.assets[1]
       IN  /\ a.symbol = "BTC" /\ a.quantity = 1 /\ a.priceUSD = Some(5)
           /\ a.valueUSD = Some(5) /\ a.tier = "CORE"
    /\ \E i \in DOMAIN live_data.assets :
         /\ live_data.assets[i].tier = "SATELLITE"
         /\ live_data.assets[i].valueUSD = None

(***************************************************************************)
(* Requests and admissions                                                 *)
(***************************************************************************)
\* the sum of a per-host count over the first n hosts
RECURSIVE HostSum(_, _)
HostSum(count, n) == IF n = 0 THEN 0 ELSE HostSum(count, n - 1) + count[n]

\* HTTP requests the fetch has sent so far: signed POSTs, server-time GETs
\* and the requests of the connector path
RequestsSent ==
    HostSum(hposts, Len(RestHosts)) + HostSum(hgets, Len(RestHosts)) + hcreq

\* C27: every HTTP request sent to the exchange is preceded by its own
\* rate-limiter admission: the service has never sent more requests than
\* the limiter has recorded admissions.
C27_EveryRequestAdmitted ==
    RequestsSent <= Len(admitted)

(***************************************************************************)
(* Every call on the limiter returns                                       *)
(***************************************************************************)
\* q is old with some of its oldest entries removed
IsSuffix(q, old) ==
    \E k \in 0..Len(old) : q = SubSeq(old, k + 1, Len(old))

\* this step ends a wait_if_needed call: one that did not sleep, or the
\* resumption of one that slept
CallReturns ==
    \/ rcalls' = rcalls + 1 /\ rpc' = rpc
    \/ \E p \in Callers : rpc[p] = "sleeping" /\ rpc'[p] = "idle"

\* C28: a step that ends a wait_if_needed call appends exactly one timestamp,
\* the current time, to the limiter's history, and no other step appends
\* one; and every caller that is suspended in the call is eventually resumed
\* and returns, whatever the other callers do.
C28_EveryCallReturnsWithOneAdmission ==
    /\ [][IF CallReturns
          THEN /\ requests' # <<>>
               /\ requests'[Len(requests')] = clock
               /\ IsSuffix(SubSeq(requests', 1, Len(requests') - 1), requests)
          ELSE IsSuffix(requests', requests)]_vars
    /\ \A p \in Callers : (rpc[p] = "sleeping") ~> (rpc[p] = "idle")

\* a caller slept, woke while the window was full again with the admissions
\* of later callers, and returned
C28_Witness ==
    /\ rslept
    /\ \A p \in Callers : rpc[p] = "idle"
    /\ Len(requests) > MaxRequests

(***************************************************************************)
(* The price cache under concurrent refreshes                              *)
(***************************************************************************)
\* C29: under concurrent _get_all_prices_optimized calls the price cache
\* timestamp never decreases, so a snapshot installed by one refresh is never
\* replaced by the result of a refresh that carries an older timestamp.
C29_CacheTimestampNeverDecreases ==
    [][price_cache_timestamp' >= price_cache_timestamp]_vars

(***************************************************************************)
(* A failed sync                                                           *)
(***************************************************************************)
\* C30: when the fetch from the exchange fails during sync_portfolio, the
\* persisted portfolio is left unchanged: the saved total is not overwritten
\* and the saved asset rows are not deleted.
C30_FailedSyncKeepsPersisted ==
    [][yfetch' = "failed"
         => /\ persisted_total' = persisted_total
            /\ persisted_assets' = persisted_assets]_vars

====
